---- MODULE Spec2Model ----
(***************************************************************************)
(* SecureChain: the analysis orchestration engine (core/analyzer.rs), its  *)
(* AI collaborator (core/ai_assist.rs), the source provider                *)
(* (core/fetcher.rs) and the plugin registry (plugins/mod.rs).             *)
(*                                                                         *)
(* Numbers: the security score and its penalties are f64 in the source but *)
(* every value involved is an integer far below 2^53, so the arithmetic is *)
(* exact and modelled on integers.  Confidences are modelled in tenths     *)
(* (0.9 -> 9) and the complexity score in hundredths.                      *)
(***************************************************************************)
EXTENDS Integers, Sequences, FiniteSets, TLC

VARIABLES
    call,                 \* entry point running: "analyze" | "probes" | "score"
    target,               \* analyze_contracts: target
    depth,                \* analyze_contracts: depth
    use_ai,               \* analyze_contracts: use_ai
    ai_backend,           \* config.ai.backend
    llm_backend,          \* generate_creative_probes: llm_backend
    pc,                   \* position inside the running entry point
    fetched,              \* log: what fetch_from_local returned
    contracts,            \* Vec<ContractInfo> returned by fetch_from_local
    idx,                  \* 1-based position of the for loop over contracts
    all_vulnerabilities,  \* analyze_contracts: all_vulnerabilities
    tools_used,           \* analyze_contracts: tools_used
    total_functions,      \* analyze_contracts: total_functions
    total_lines,          \* analyze_contracts: total_lines
    all_probes,           \* generate_creative_probes: all_probes
    phases,               \* log: phases entered, per contract unit
    invoked,              \* log: parser / backend invocations and how each ended
    result,               \* value returned by the entry point
    score_vulns,          \* calculate_security_score: argument
    score,                \* calculate_security_score: returned value
    plugin_source,        \* EVMPlugin::analyze_contract: contract.source_code
    plugin_slither,       \* EVMPlugin::analyze_contract: what the Slither binary does
    plugin_findings,      \* EVMPlugin::analyze_contract: returned value
    native,               \* the severity and confidence strings of a backend's output
    mapped,               \* map_slither_severity, map_mythril_severity, map_confidence of them
    cmd,                  \* cli/commands.rs: the command running: "analyze" | "perfect"
    cmd_pc,               \* position inside the command
    cmd_input,            \* what the file system holds at the command's input path
    analysis_results,     \* the value analyze_contracts returned to the command
    all_fuzz_results,     \* execute_perfect_audit: all_fuzz_results
    creative_probes,      \* execute_perfect_audit: creative_probes
    reported,             \* the results handed to the reporter / serializer
    parser_source,        \* ContractParser: source_code, as lines of tokens
    parsed,               \* ContractParser::extract_functions / extract_modifiers: returned values
    validate_platform,    \* PluginManager::validate_contract: target_platform
    validate_source,      \* PluginManager::validate_contract: contract.source_code
    validated,            \* PluginManager::validate_contract: returned value
    config,               \* utils/config.rs: the Config being loaded or updated
    config_other,         \* Config::merge: the configuration read from a file
    config_pc,            \* position inside Config::load; "loaded" once it returned
    config_result,        \* what the last merge or set_value returned
    fuzz_unit,            \* the contract handed to the fuzzing engine
    fuzz_failures,        \* the failures of its FuzzingResults
    fuzz_report,          \* its coverage report
    fuzz_vulns            \* what convert_to_vulnerabilities returned

vars == << call, target, depth, use_ai, ai_backend, llm_backend, pc, fetched, contracts,
           idx, all_vulnerabilities, tools_used, total_functions, total_lines,
           all_probes, phases, invoked, result, score_vulns, score,
           plugin_source, plugin_slither, plugin_findings, native, mapped,
           cmd, cmd_pc, cmd_input, analysis_results, all_fuzz_results,
           creative_probes, reported,
           parser_source, parsed,
           validate_platform, validate_source, validated,
           config, config_other, config_pc, config_result,
           fuzz_unit, fuzz_failures, fuzz_report, fuzz_vulns >>

(***************************************************************************)
(* Bounds                                                                  *)
(***************************************************************************)
MaxUnits == 2
MaxScoreLen == 6

(***************************************************************************)
(* Input domains                                                           *)
(***************************************************************************)
Targets == {"evm", "move", "cairo", "ink", "unknown-chain"}
Depths == {"basic", "standard", "deep", "Deep"}
AIBackends == {"openai", "local", "gemini"}
Severities == {"Critical", "High", "Medium", "Low", "Info"}
\* severity strings a finding can carry: the five canonical ones and a raw
\* string an AI response may contain
SeverityStrings == Severities \cup {"critical"}

\* A contract unit: the lexical signals its source text contains and the
\* sizes the parser reports for it.
\* lines = 0 is the empty source string: "".lines().count() = 0, and any
\* other text has at least one line.
Units ==
    { [tokens |-> {}, functions |-> 0, lines |-> 0, bodies |-> << >>],
      [tokens |-> {}, functions |-> 1, lines |-> 3, bodies |-> << {} >>],
      [tokens |-> {"tx.origin"}, functions |-> 2, lines |-> 5,
       bodies |-> << {"tx.origin"}, {} >>] }

\* the .sol files of the directories explored
DirUnits ==
    { [tokens |-> {"tx.origin"}, functions |-> 2, lines |-> 5,
       bodies |-> << {"tx.origin"}, {} >>] }

RECURSIVE SeqsUpTo(_, _)
SeqsUpTo(S, n) ==
    IF n = 0 THEN {<< >>}
    ELSE LET shorter == SeqsUpTo(S, n - 1)
         IN  shorter \cup { Append(s, x) : s \in {t \in shorter : Len(t) = n - 1}, x \in S }

Max(a, b) == IF a >= b THEN a ELSE b
Min(a, b) == IF a <= b THEN a ELSE b

Ok(v) == [ok |-> TRUE, value |-> v]
Err(e) == [ok |-> FALSE, error |-> e]

(***************************************************************************)
(* Findings                                                                *)
(***************************************************************************)
Vulnerability(sev, cat, t, conf, unit) ==
    [severity |-> sev, category |-> cat, tool |-> t, confidence |-> conf,
     file_path |-> unit]

\* str::to_lowercase on the strings the model uses; a string without an
\* upper-case letter is left as it is
ToLower(s) ==
    CASE s \in {"High", "HIGH", "hIgH"} -> "high"
      [] s \in {"Medium", "MEDIUM"} -> "medium"
      [] s \in {"Low", "LOW"} -> "low"
      [] s \in {"Informational", "INFORMATIONAL"} -> "informational"
      [] s = "Optimization" -> "optimization"
      [] s = "Critical" -> "critical"
      [] s = "Info" -> "info"
      [] s = "Reentrancy" -> "reentrancy"
      [] s = "Deep" -> "deep"
      [] OTHER -> s

\* mutant: the match on the impact as written, to_lowercase forgotten
M_map_slither_severity(impact) ==
    CASE impact = "high" -> "High"
      [] impact = "medium" -> "Medium"
      [] impact = "low" -> "Low"
      [] impact = "informational" -> "Info"
      [] OTHER -> "Medium"

\* analyzer.rs map_slither_severity
map_slither_severity(impact) ==
    LET l == ToLower(impact)
    IN  CASE l = "high" -> "High"
          [] l = "medium" -> "Medium"
          [] l = "low" -> "Low"
          [] l = "informational" -> "Info"
          [] OTHER -> "Medium"

\* analyzer.rs map_mythril_severity
map_mythril_severity(severity) ==
    LET l == ToLower(severity)
    IN  CASE l = "high" -> "High"
          [] l = "medium" -> "Medium"
          [] l = "low" -> "Low"
          [] OTHER -> "Medium"

\* analyzer.rs map_slither_category
map_slither_category(check) ==
    CASE check \in {"reentrancy-eth", "reentrancy-no-eth"} -> "Reentrancy"
      [] check \in {"unchecked-transfer", "unchecked-send"} -> "UnhandledExceptions"
      [] check = "tx-origin" -> "AccessControl"
      [] check = "timestamp" -> "TimestampDependence"
      [] check = "low-level-calls" -> "LowLevelCalls"
      [] OTHER -> "Other"

\* analyzer.rs map_confidence (tenths)
map_confidence(confidence) ==
    LET l == ToLower(confidence)
    IN  CASE l = "high" -> 9
          [] l = "medium" -> 7
          [] l = "low" -> 5
          [] OTHER -> 6

\* ai_assist.rs map_ai_category
map_ai_category(category) ==
    LET l == ToLower(category)
    IN  CASE l = "reentrancy" -> "Reentrancy"
          [] l = "access control" -> "AccessControl"
          [] l = "integer overflow" -> "IntegerOverflow"
          [] l = "unchecked calls" -> "UnhandledExceptions"
          [] l = "timestamp" -> "TimestampDependence"
          [] l = "dos" -> "DenialOfService"
          [] OTHER -> "Other"

(***************************************************************************)
(* External static / dynamic backends: what the spawned process can do     *)
(***************************************************************************)
\* A Slither detector object of the JSON output.  complete = the four string
\* fields check, impact, confidence, description are all present.
SlitherDetector(complete, check, impact, confidence) ==
    [complete |-> complete, check |-> check, impact |-> impact,
     confidence |-> confidence]

\* stdout of a Slither run that exited with success
SlitherStdouts ==
    { [json |-> FALSE, detectors |-> << >>],                 \* not JSON at all
      [json |-> TRUE, detectors |->
          << SlitherDetector(TRUE, "tx-origin", "High", "HIGH") >>],
      [json |-> TRUE, detectors |->
          << SlitherDetector(FALSE, "timestamp", "Low", "Low"),
             SlitherDetector(TRUE, "naming-convention", "Informational", "Medium"),
             SlitherDetector(TRUE, "costly-loop", "Optimization", "unknown") >>] }

\* outcome of tempfile creation + Command::new(..).output().await
\* (stdout is only read after a successful exit; `none` fills it otherwise)
ProcessOutcomes(stdouts, none) ==
    { [kind |-> k, stdout |-> none] : k \in {"tempfile_err", "spawn_err", "exit_nonzero"} }
    \cup { [kind |-> "exit_ok", stdout |-> o] : o \in stdouts }

\* Command::new(..).output().await is awaited without a deadline: a process
\* that never exits leaves the future pending for ever
NeverReturns == [kind |-> "hang"]

SlitherOutcomes == ProcessOutcomes(SlitherStdouts, [json |-> FALSE, detectors |-> << >>])

\* analyzer.rs parse_slither_detector: None when a required field is missing
parse_slither_detector(detector, unit) ==
    IF ~detector.complete THEN << >>
    ELSE << Vulnerability(map_slither_severity(detector.impact),
                          map_slither_category(detector.check),
                          "Slither",
                          map_confidence(detector.confidence),
                          unit) >>

RECURSIVE FlatMap(_, _, _)
\* the for loop that pushes each Some(vuln), in order
FlatMap(Op(_, _), items, unit) ==
    IF items = << >> THEN << >>
    ELSE Op(Head(items), unit) \o FlatMap(Op, Tail(items), unit)

\* analyzer.rs parse_slither_output: always Ok
parse_slither_output(stdout, unit) ==
    IF stdout.json
    THEN Ok(FlatMap(parse_slither_detector, stdout.detectors, unit))
    ELSE Ok(<< >>)

\* analyzer.rs run_slither
run_slither(outcome, unit) ==
    CASE outcome.kind \in {"tempfile_err", "spawn_err"} -> Err("io")
      [] outcome.kind = "exit_nonzero" -> Ok(<< >>)
      [] OTHER -> parse_slither_output(outcome.stdout, unit)

\* A Mythril issue object.  complete = title, description, severity, swc-id
\* are all present strings.
MythrilStdouts ==
    { [json |-> FALSE, issues |-> << >>],
      [json |-> TRUE, issues |->
          << [complete |-> FALSE, severity |-> "High"],
             [complete |-> TRUE, severity |-> "Low"] >>] }

MythrilOutcomes == ProcessOutcomes(MythrilStdouts, [json |-> FALSE, issues |-> << >>])

\* analyzer.rs parse_mythril_issue
parse_mythril_issue(issue, unit) ==
    IF ~issue.complete THEN << >>
    ELSE << Vulnerability(map_mythril_severity(issue.severity),
                          "SymbolicExecution", "Mythril", 8, unit) >>

\* analyzer.rs parse_mythril_output
parse_mythril_output(stdout, unit) ==
    IF stdout.json
    THEN Ok(FlatMap(parse_mythril_issue, stdout.issues, unit))
    ELSE Ok(<< >>)

\* analyzer.rs run_mythril
run_mythril(outcome, unit) ==
    CASE outcome.kind \in {"tempfile_err", "spawn_err"} -> Err("io")
      [] outcome.kind = "exit_nonzero" -> Ok(<< >>)
      [] OTHER -> parse_mythril_output(outcome.stdout, unit)

\* stdout of an Echidna run: does the text contain FAILED / AssertionFailed
EchidnaStdouts == { [failed |-> FALSE], [failed |-> TRUE] }

EchidnaOutcomes == ProcessOutcomes(EchidnaStdouts, [failed |-> FALSE])

\* analyzer.rs parse_echidna_output
parse_echidna_output(stdout, unit) ==
    IF stdout.failed
    THEN Ok(<< Vulnerability("High", "Fuzzing", "Echidna", 9, unit) >>)
    ELSE Ok(<< >>)

\* analyzer.rs run_echidna
run_echidna(outcome, unit) ==
    CASE outcome.kind \in {"tempfile_err", "spawn_err"} -> Err("io")
      [] outcome.kind = "exit_nonzero" -> Ok(<< >>)
      [] OTHER -> parse_echidna_output(outcome.stdout, unit)

\* analyzer.rs run_move_prover / run_cairo_analysis: stubs returning Ok(vec![])
run_move_prover(unit) == Ok(<< >>)
run_cairo_analysis(unit) == Ok(<< >>)

\* `if let Ok(results) = ... { vulnerabilities.extend(results) }`
OkOrEmpty(r) == IF r.ok THEN r.value ELSE << >>

(***************************************************************************)
(* Platform plugins (plugins/mod.rs and the built-in plugins)              *)
(***************************************************************************)
\* plugins/mod.rs PluginManager::new: the registered platform identifiers
RegisteredPlugins == {"evm", "move", "cairo", "ink"}

\* cli/commands.rs Commands::Analyze: the targets the command advertises
AdvertisedTargets == {"evm", "move", "cairo", "ink"}

RECURSIVE EVMPlugin_gas_limit_check(_, _)
\* evm.rs EVMPlugin::run_basic_checks, `for function in &contract.functions`:
\* one finding for each function whose body holds a loop
EVMPlugin_gas_limit_check(bodies, unit) ==
    IF bodies = << >> THEN << >>
    ELSE (IF "while(" \in Head(bodies) \/ "for(" \in Head(bodies)
          THEN << Vulnerability("Medium", "DenialOfService", "EVM Plugin", 6, unit) >>
          ELSE << >>)
         \o EVMPlugin_gas_limit_check(Tail(bodies), unit)

\* evm.rs EVMPlugin::run_basic_checks: the four checks, in order.  A token
\* of the contract stands for a substring of source_code, bodies holds the
\* tokens of each function's body.
EVMPlugin_run_basic_checks(contract, unit) ==
    (IF "tx.origin" \in contract.tokens
     THEN << Vulnerability("High", "AccessControl", "EVM Plugin", 9, unit) >>
     ELSE << >>)
    \o (IF "suicide(" \in contract.tokens \/ "selfdestruct(" \in contract.tokens
        THEN << Vulnerability("Medium", "CodeQuality", "EVM Plugin", 7, unit) >>
        ELSE << >>)
    \o (IF ".call(" \in contract.tokens /\ "require(" \notin contract.tokens
        THEN << Vulnerability("High", "UnhandledExceptions", "EVM Plugin", 8, unit) >>
        ELSE << >>)
    \o EVMPlugin_gas_limit_check(contract.bodies, unit)

\* evm.rs EVMPlugin::map_slither_category
EVMPlugin_map_slither_category(check) ==
    CASE check \in {"reentrancy-eth", "reentrancy-no-eth", "reentrancy-events"} -> "Reentrancy"
      [] check \in {"unchecked-transfer", "unchecked-send", "unchecked-lowlevel"} ->
           "UnhandledExceptions"
      [] check \in {"tx-origin", "suicidal", "arbitrary-send"} -> "AccessControl"
      [] check \in {"timestamp", "weak-prng"} -> "TimestampDependence"
      [] check \in {"low-level-calls", "assembly"} -> "LowLevelCalls"
      [] check \in {"integer-overflow", "divide-by-zero"} -> "IntegerOverflow"
      [] check \in {"locked-ether", "missing-zero-check"} -> "CodeQuality"
      [] check = "dos-" -> "DenialOfService"
      [] OTHER -> "Other"

\* evm.rs EVMPlugin::parse_slither_detector; the plugin's map_slither_severity
\* and map_confidence are the same tables as the engine's
EVMPlugin_parse_slither_detector(detector, unit) ==
    IF ~detector.complete THEN << >>
    ELSE << Vulnerability(map_slither_severity(detector.impact),
                          EVMPlugin_map_slither_category(detector.check),
                          "Slither",
                          map_confidence(detector.confidence),
                          unit) >>

\* evm.rs EVMPlugin::run_slither_analysis, Slither being available
EVMPlugin_run_slither_analysis(outcome, unit) ==
    CASE outcome.kind \in {"tempfile_err", "spawn_err"} -> Err("io")
      [] outcome.kind = "exit_nonzero" -> Ok(<< >>)
      [] OTHER ->
           IF outcome.stdout.json
           THEN Ok(FlatMap(EVMPlugin_parse_slither_detector, outcome.stdout.detectors, unit))
           ELSE Ok(<< >>)

\* evm.rs BlockchainPlugin::analyze_contract for EVMPlugin: the basic checks,
\* then Slither's findings when the binary is there and the run did not fail
EVMPlugin_analyze_contract(contract, slither, unit) ==
    Ok(EVMPlugin_run_basic_checks(contract, unit)
       \o (IF slither.available
           THEN OkOrEmpty(EVMPlugin_run_slither_analysis(slither.outcome, unit))
           ELSE << >>))

\* move_lang.rs MovePlugin::check_move_best_practices, the module check
MovePlugin_check_move_best_practices(contract, unit) ==
    IF "module" \notin contract.tokens
    THEN << Vulnerability("Medium", "CodeQuality", "Move Plugin", 8, unit) >>
    ELSE << >>

\* cairo.rs CairoPlugin::check_external_functions, the access control check
CairoPlugin_check_external_functions(contract, unit) ==
    IF "@external" \in contract.tokens /\ "assert_only_owner" \notin contract.tokens
    THEN << Vulnerability("High", "AccessControl", "Cairo Plugin", 8, unit) >>
    ELSE << >>

\* ink.rs InkPlugin::check_ink_attributes, the contract attribute check
InkPlugin_check_ink_attributes(contract, unit) ==
    IF "#[ink::contract]" \notin contract.tokens
    THEN << Vulnerability("High", "CodeQuality", "Ink Plugin", 9, unit) >>
    ELSE << >>

\* BlockchainPlugin::analyze_contract of the plugin registered for `platform`
plugin_analyze_contract(platform, contract, unit) ==
    CASE platform = "evm" -> EVMPlugin_run_basic_checks(contract, unit)
      [] platform = "move" -> MovePlugin_check_move_best_practices(contract, unit)
      [] platform = "cairo" -> CairoPlugin_check_external_functions(contract, unit)
      [] OTHER -> InkPlugin_check_ink_attributes(contract, unit)

\* plugins/mod.rs PluginManager::analyze_contract
PluginManager_analyze_contract(contract, target_platform, unit) ==
    IF target_platform \in RegisteredPlugins
    THEN Ok(plugin_analyze_contract(target_platform, contract, unit))
    ELSE Err("PluginNotFound")

(***************************************************************************)
(* AI backend (core/ai_assist.rs)                                          *)
(***************************************************************************)
\* The text the model answered with.  json = a JSON object that deserializes
\* as AIAnalysisResponse can be cut out of it; its vulnerabilities carry the
\* severity string and the confidence number (tenths) as the model wrote them.
AIContents ==
    { [json |-> FALSE, vulnerabilities |-> << >>],
      [json |-> TRUE, vulnerabilities |->
          << [severity |-> "Critical", category |-> "Reentrancy", confidence |-> 9],
             [severity |-> "critical", category |-> "dos", confidence |-> 15] >>] }

\* What the environment does to one AI call: is the API key variable set,
\* and how the HTTP exchange ends.
AIOutcomes ==
    { [credential |-> c, http |-> h, content |-> [json |-> FALSE, vulnerabilities |-> << >>]] :
          c \in BOOLEAN, h \in {"network_error", "body_not_json", "no_content"} }
    \cup { [credential |-> c, http |-> "content", content |-> t] :
          c \in BOOLEAN, t \in AIContents }

\* ai_assist.rs parse_ai_analysis_response: one finding per AI vulnerability
ai_vulnerability(ai_vuln, unit) ==
    << Vulnerability(ai_vuln.severity, map_ai_category(ai_vuln.category),
                     "AI Assistant", ai_vuln.confidence, unit) >>

\* ai_assist.rs parse_ai_analysis_response: always Ok
parse_ai_analysis_response(content, unit) ==
    IF content.json
    THEN Ok(FlatMap(ai_vulnerability, content.vulnerabilities, unit))
    ELSE Ok(<< >>)

\* ai_assist.rs analyze_with_openai / _anthropic / _local_llm
analyze_with(needs_key, outcome, unit) ==
    CASE needs_key /\ ~outcome.credential -> Err("MissingCredential")
      [] outcome.http = "network_error" -> Err("NetworkError")
      [] outcome.http = "body_not_json" -> Err("NetworkError")
      [] outcome.http = "no_content" -> Err("InvalidResponse")
      [] OTHER -> parse_ai_analysis_response(outcome.content, unit)

\* ai_assist.rs AIAssistant::analyze_contract
AIAssistant_analyze_contract(backend, outcome, unit) ==
    CASE backend = "openai" -> analyze_with(TRUE, outcome, unit)
      [] backend = "anthropic" -> analyze_with(TRUE, outcome, unit)
      [] backend = "local" -> analyze_with(FALSE, outcome, unit)
      [] OTHER -> Err("UnsupportedAIBackend")

\* a hard failure of the AI backend in the sense of the design: no credential
\* where one is needed, the exchange failed, or the answer is malformed
AIHardFailure(backend, outcome) ==
    \/ backend \notin {"openai", "anthropic", "local"}
    \/ backend \in {"openai", "anthropic"} /\ ~outcome.credential
    \/ outcome.http # "content"
    \/ ~outcome.content.json

\* ai_assist.rs parse_creative_probe_response / generate_probes_with_*:
\* the probes of one answer, as the severities of the parsed probe objects
ProbeContents == { << >>, << "High" >> }

ProbeOutcomes ==
    { [credential |-> c, http |-> h, probes |-> << >>] :
          c \in BOOLEAN, h \in {"network_error", "no_content"} }
    \cup { [credential |-> c, http |-> "content", probes |-> t] :
          c \in BOOLEAN, t \in ProbeContents }

\* ai_assist.rs generate_probes_with_openai / _anthropic / _local_llm
generate_probes_with(needs_key, outcome) ==
    CASE needs_key /\ ~outcome.credential -> Err("MissingCredential")
      [] outcome.http = "network_error" -> Err("NetworkError")
      [] outcome.http = "no_content" -> Err("InvalidResponse")
      [] OTHER -> Ok(outcome.probes)

\* ai_assist.rs AIAssistant::generate_creative_probes
AIAssistant_generate_creative_probes(backend, outcome) ==
    CASE backend = "openai" -> generate_probes_with(TRUE, outcome)
      [] backend = "anthropic" -> generate_probes_with(TRUE, outcome)
      [] backend = "local" -> generate_probes_with(FALSE, outcome)
      [] OTHER -> Err("UnsupportedAIBackend")

(***************************************************************************)
(* Scoring and summary (core/analyzer.rs)                                  *)
(***************************************************************************)
\* mutant: the Low and Info penalties confused
M_Penalty(severity) ==
    CASE severity = "Critical" -> 25
      [] severity = "High" -> 15
      [] severity = "Medium" -> 8
      [] severity = "Low" -> 1
      [] OTHER -> 3

\* analyzer.rs calculate_security_score: the penalty match
Penalty(severity) ==
    CASE severity = "Critical" -> 25
      [] severity = "High" -> 15
      [] severity = "Medium" -> 8
      [] severity = "Low" -> 3
      [] OTHER -> 1

RECURSIVE M_ScoreLoop(_, _)
\* mutant: once the running score is below 80 a finding costs 1
M_ScoreLoop(sc, vulnerabilities) ==
    IF vulnerabilities = << >> THEN sc
    ELSE M_ScoreLoop(sc - (IF sc < 80 THEN 1 ELSE Penalty(Head(vulnerabilities).severity)),
                     Tail(vulnerabilities))

RECURSIVE ScoreLoop(_, _)
\* analyzer.rs calculate_security_score: the for loop, score -= penalty
ScoreLoop(sc, vulnerabilities) ==
    IF vulnerabilities = << >> THEN sc
    ELSE ScoreLoop(sc - Penalty(Head(vulnerabilities).severity), Tail(vulnerabilities))

\* mutant: the final score.max(0.0) forgotten
M_calculate_security_score(vulnerabilities) ==
    IF vulnerabilities = << >> THEN 100
    ELSE ScoreLoop(100, vulnerabilities)

\* analyzer.rs calculate_security_score
calculate_security_score(vulnerabilities) ==
    IF vulnerabilities = << >> THEN 100
    ELSE Max(ScoreLoop(100, vulnerabilities), 0)

\* analyzer.rs calculate_complexity_score, in hundredths:
\* min(100.0, 0.1 * functions + 0.01 * lines)
calculate_complexity_score(functions, lines) ==
    Min(10 * functions + lines, 10000)

RECURSIVE CountWhere(_, _)
CountWhere(P(_), s) ==
    IF s = << >> THEN 0
    ELSE (IF P(Head(s)) THEN 1 ELSE 0) + CountWhere(P, Tail(s))

\* mutant: the catch-all arm replaced by an arm for "Info" alone
M_generate_analysis_summary(vulnerabilities, tools) ==
    LET IsCritical(v) == v.severity = "Critical"
        IsHigh(v) == v.severity = "High"
        IsMedium(v) == v.severity = "Medium"
        IsLow(v) == v.severity = "Low"
        IsInfo(v) == v.severity = "Info"
    IN  [ total_vulnerabilities |-> Len(vulnerabilities),
          critical_count |-> CountWhere(IsCritical, vulnerabilities),
          high_count |-> CountWhere(IsHigh, vulnerabilities),
          medium_count |-> CountWhere(IsMedium, vulnerabilities),
          low_count |-> CountWhere(IsLow, vulnerabilities),
          info_count |-> CountWhere(IsInfo, vulnerabilities),
          tools_used |-> tools ]

\* analyzer.rs generate_analysis_summary
generate_analysis_summary(vulnerabilities, tools) ==
    LET IsCritical(v) == v.severity = "Critical"
        IsHigh(v) == v.severity = "High"
        IsMedium(v) == v.severity = "Medium"
        IsLow(v) == v.severity = "Low"
        IsOther(v) == v.severity \notin {"Critical", "High", "Medium", "Low"}
    IN  [ total_vulnerabilities |-> Len(vulnerabilities),
          critical_count |-> CountWhere(IsCritical, vulnerabilities),
          high_count |-> CountWhere(IsHigh, vulnerabilities),
          medium_count |-> CountWhere(IsMedium, vulnerabilities),
          low_count |-> CountWhere(IsLow, vulnerabilities),
          info_count |-> CountWhere(IsOther, vulnerabilities),
          tools_used |-> tools ]

\* analyzer.rs analyze_contracts: the AnalysisResults value built at the end
AnalysisResults(vulnerabilities, tools, functions, lines) ==
    [ status |-> "ok",
      contract_name |-> 1,
      vulnerabilities |-> vulnerabilities,
      analysis_summary |-> generate_analysis_summary(vulnerabilities, tools),
      metrics |->
        [ lines_of_code |-> lines,
          functions_analyzed |-> functions,
          complexity_score |-> calculate_complexity_score(functions, lines),
          security_score |-> calculate_security_score(vulnerabilities) ] ]

(***************************************************************************)
(* Source provider (core/fetcher.rs)                                       *)
(***************************************************************************)
\* What the file system holds at the input path: nothing, one file, or a
\* directory with the listed .sol files; readable = read_to_string succeeds.
FetchOutcomes ==
    { [path |-> "missing", readable |-> TRUE, units |-> << >>] }
    \cup { [path |-> "file", readable |-> r, units |-> << u >>] :
              r \in BOOLEAN, u \in Units }
    \cup { [path |-> "dir", readable |-> TRUE, units |-> l] :
              l \in SeqsUpTo(DirUnits, MaxUnits) }
    \cup { [path |-> "dir", readable |-> FALSE, units |-> l] :
              l \in SeqsUpTo(DirUnits, MaxUnits) \ {<< >>} }

\* fetcher.rs ContractFetcher::fetch_from_local
fetch_from_local(outcome) ==
    CASE outcome.path = "missing" -> Err("PathNotFound")
      [] ~outcome.readable -> Err("Io")
      [] OTHER -> Ok(outcome.units)

(***************************************************************************)
(* The log of invocations                                                  *)
(***************************************************************************)
\* One entry per invocation of the parser or of a backend for a unit:
\* failed = the backend was unavailable, failed or answered with malformed
\* output; produced = the number of well-formed raw findings it answered.
Invocation(unit, what, failed, produced) ==
    [unit |-> unit, what |-> what, failed |-> failed, produced |-> produced,
     findings |-> << >>]

\* the entry of an invocation with the finding list the call handed back to
\* its caller (none when it returned Err)
Returned(invocation, r) == [invocation EXCEPT !.findings = OkOrEmpty(r)]

RECURSIVE CountComplete(_)
CountComplete(items) ==
    IF items = << >> THEN 0
    ELSE (IF Head(items).complete THEN 1 ELSE 0) + CountComplete(Tail(items))

SlitherInvocation(unit, o) ==
    Returned(Invocation(unit, "Slither", o.kind # "exit_ok" \/ ~o.stdout.json,
                        IF o.kind = "exit_ok" /\ o.stdout.json
                        THEN CountComplete(o.stdout.detectors) ELSE 0),
             run_slither(o, unit))

MythrilInvocation(unit, o) ==
    Returned(Invocation(unit, "Mythril", o.kind # "exit_ok" \/ ~o.stdout.json,
                        IF o.kind = "exit_ok" /\ o.stdout.json
                        THEN CountComplete(o.stdout.issues) ELSE 0),
             run_mythril(o, unit))

EchidnaInvocation(unit, o) ==
    Returned(Invocation(unit, "Echidna", o.kind # "exit_ok",
                        IF o.kind = "exit_ok" /\ o.stdout.failed THEN 1 ELSE 0),
             run_echidna(o, unit))

AIInvocation(unit, backend, o) ==
    Returned(Invocation(unit, "AI Assistant", AIHardFailure(backend, o),
                        IF AIHardFailure(backend, o) THEN 0
                        ELSE Len(o.content.vulnerabilities)),
             AIAssistant_analyze_contract(backend, o, unit))

(***************************************************************************)
(* analyze_contracts (core/analyzer.rs)                                    *)
(***************************************************************************)
\* mutant: the Slither error propagated with `?` instead of `if let Ok`
M_run_static_analysis_propagating(tgt, dep, so, mo, unit) ==
    CASE tgt = "evm" ->
           IF ~run_slither(so, unit).ok THEN Err("io")
           ELSE Ok(run_slither(so, unit).value
                   \o (IF dep = "deep" THEN OkOrEmpty(run_mythril(mo, unit)) ELSE << >>))
      [] tgt = "move" -> Ok(OkOrEmpty(run_move_prover(unit)))
      [] tgt = "cairo" -> Ok(OkOrEmpty(run_cairo_analysis(unit)))
      [] OTHER -> Err("UnsupportedTarget")

\* mutant: the fall-through arm returns no findings instead of the error
M_run_static_analysis_lenient(tgt, dep, so, mo, unit) ==
    CASE tgt = "evm" ->
           Ok(OkOrEmpty(run_slither(so, unit))
              \o (IF dep = "deep" THEN OkOrEmpty(run_mythril(mo, unit)) ELSE << >>))
      [] tgt = "move" -> Ok(OkOrEmpty(run_move_prover(unit)))
      [] tgt = "cairo" -> Ok(OkOrEmpty(run_cairo_analysis(unit)))
      [] OTHER -> Ok(<< >>)

\* mutant: Mythril's findings put in front of Slither's
M_run_static_analysis_swapped(tgt, dep, so, mo, unit) ==
    CASE tgt = "evm" ->
           Ok((IF dep = "deep" THEN OkOrEmpty(run_mythril(mo, unit)) ELSE << >>)
              \o OkOrEmpty(run_slither(so, unit)))
      [] tgt = "move" -> Ok(OkOrEmpty(run_move_prover(unit)))
      [] tgt = "cairo" -> Ok(OkOrEmpty(run_cairo_analysis(unit)))
      [] OTHER -> Err("UnsupportedTarget")

\* analyzer.rs run_static_analysis
run_static_analysis(tgt, dep, so, mo, unit) ==
    CASE tgt = "evm" ->
           Ok(OkOrEmpty(run_slither(so, unit))
              \o (IF dep = "deep" THEN OkOrEmpty(run_mythril(mo, unit)) ELSE << >>))
      [] tgt = "move" -> Ok(OkOrEmpty(run_move_prover(unit)))
      [] tgt = "cairo" -> Ok(OkOrEmpty(run_cairo_analysis(unit)))
      [] OTHER -> Err("UnsupportedTarget")

\* run_static_analysis is left pending by a backend it awaits
StaticHangs(tgt, dep, so, mo) ==
    tgt = "evm" /\ (so = NeverReturns \/ (dep = "deep" /\ mo = NeverReturns))

\* the backends run_static_analysis invokes, in order
StaticInvocations(tgt, dep, so, mo, unit) ==
    CASE tgt = "evm" ->
           << SlitherInvocation(unit, so) >>
           \o (IF dep = "deep" THEN << MythrilInvocation(unit, mo) >> ELSE << >>)
      [] tgt = "move" -> << Invocation(unit, "Move Prover", FALSE, 0) >>
      [] tgt = "cairo" -> << Invocation(unit, "Cairo", FALSE, 0) >>
      [] OTHER -> << >>

\* analyzer.rs run_dynamic_analysis
run_dynamic_analysis(tgt, eo, unit) ==
    CASE tgt = "evm" -> Ok(OkOrEmpty(run_echidna(eo, unit)))
      [] OTHER -> Ok(<< >>)

\* run_dynamic_analysis is left pending by the backend it awaits
DynamicHangs(tgt, eo) == tgt = "evm" /\ eo = NeverReturns

\* the backends run_dynamic_analysis invokes
DynamicInvocations(tgt, eo, unit) ==
    IF tgt = "evm" THEN << EchidnaInvocation(unit, eo) >> ELSE << >>

\* mutant: the AI block placed before the dynamic block
M_PhaseAfter(phase) ==
    CASE phase = "parse" -> "static"
      [] phase = "static" ->
           IF use_ai THEN "ai" ELSE IF depth = "deep" THEN "dynamic" ELSE "next"
      [] phase = "ai" -> IF depth = "deep" THEN "dynamic" ELSE "next"
      [] OTHER -> "next"

\* mutant: the depth compared without regard to case
M_PhaseAfter_caseless(phase) ==
    CASE phase = "parse" -> "static"
      [] phase = "static" ->
           IF ToLower(depth) = "deep" THEN "dynamic"
           ELSE IF use_ai THEN "ai" ELSE "next"
      [] phase = "dynamic" -> IF use_ai THEN "ai" ELSE "next"
      [] OTHER -> "next"

\* analyzer.rs analyze_contracts: the order of the statements of the loop
\* body; "next" stands for the end of the body
PhaseAfter(phase) ==
    CASE phase = "parse" -> "static"
      [] phase = "static" ->
           IF depth = "deep" THEN "dynamic" ELSE IF use_ai THEN "ai" ELSE "next"
      [] phase = "dynamic" -> IF use_ai THEN "ai" ELSE "next"
      [] OTHER -> "next"

\* move on inside the for loop over contracts
Goto(phase) ==
    IF phase # "next" THEN pc' = phase /\ idx' = idx
    ELSE IF idx < Len(contracts) THEN pc' = "parse" /\ idx' = idx + 1
    ELSE pc' = "finish" /\ idx' = idx

Enter(phase) == phases' = Append(phases, [unit |-> idx, phase |-> phase])

Fail(error) == result' = [status |-> "err", error |-> error] /\ pc' = "done"

\* the await of a backend's output never resolves: analyze_contracts stays
\* suspended inside the phase, holding what it had accumulated
Pending ==
    /\ pc' = "pending"
    /\ UNCHANGED << idx, all_vulnerabilities, invoked, result >>

\* mutant: the contracts.is_empty() check removed, the loop runs zero times
M_FetchStep(first) ==
    \E o \in FetchOutcomes :
        LET r == fetch_from_local(o)
        IN  /\ fetched' = r
            /\ IF ~r.ok THEN Fail(r.error) /\ UNCHANGED << contracts, idx >>
               ELSE IF r.value = << >>
               THEN pc' = "finish" /\ UNCHANGED << contracts, idx, result >>
               ELSE contracts' = r.value /\ idx' = 1 /\ pc' = first /\ UNCHANGED result

\* analyzer.rs analyze_contracts / generate_creative_probes: fetch the
\* contracts and reject an empty list
FetchStep(first) ==
    \E o \in FetchOutcomes :
        LET r == fetch_from_local(o)
        IN  /\ fetched' = r
            /\ IF ~r.ok THEN Fail(r.error) /\ UNCHANGED << contracts, idx >>
               ELSE IF r.value = << >>
               THEN Fail("NoContractsFound") /\ UNCHANGED << contracts, idx >>
               ELSE contracts' = r.value /\ idx' = 1 /\ pc' = first /\ UNCHANGED result

Inputs == << call, target, depth, use_ai, ai_backend, llm_backend >>
ScoreVars == << score_vulns, score >>
PluginVars == << plugin_source, plugin_slither, plugin_findings >>
MappingVars == << native, mapped >>
CommandVars ==
    << cmd, cmd_pc, cmd_input, analysis_results, all_fuzz_results,
       creative_probes, reported >>
ParserVars == << parser_source, parsed >>
ValidateVars == << validate_platform, validate_source, validated >>
ConfigVars == << config, config_other, config_pc, config_result >>
FuzzVars == << fuzz_unit, fuzz_failures, fuzz_report, fuzz_vulns >>
SideVars == << ScoreVars, PluginVars, MappingVars, CommandVars,
              ParserVars,
              ValidateVars,
              ConfigVars,
              FuzzVars >>
LoopFrame == << Inputs, SideVars, fetched, contracts >>

AnalyzeFetch ==
    /\ call = "analyze" /\ pc = "fetch"
    /\ FetchStep("parse")
    /\ UNCHANGED << Inputs, SideVars, all_vulnerabilities, tools_used,
                    total_functions, total_lines, all_probes, phases, invoked >>

\* parse_contract never returns Err: every extract_* ends in Ok
ParseUnit ==
    /\ call = "analyze" /\ pc = "parse"
    /\ total_functions' = total_functions + contracts[idx].functions
    /\ total_lines' = total_lines + contracts[idx].lines
    /\ Enter("ingest")
    /\ invoked' = Append(invoked, Invocation(idx, "Parser", FALSE, 0))
    /\ Goto(PhaseAfter("parse"))
    /\ UNCHANGED << LoopFrame, all_vulnerabilities, tools_used,
                    all_probes, result >>

RunStaticAnalysis ==
    /\ call = "analyze" /\ pc = "static"
    /\ Enter("static")
    /\ \E so \in SlitherOutcomes \cup {NeverReturns},
          mo \in MythrilOutcomes \cup {NeverReturns} :
          IF StaticHangs(target, depth, so, mo) THEN Pending
          ELSE
          LET r == run_static_analysis(target, depth, so, mo, idx)
          IN  /\ invoked' = invoked \o StaticInvocations(target, depth, so, mo, idx)
              /\ IF r.ok
                 THEN /\ all_vulnerabilities' = all_vulnerabilities \o r.value
                      /\ Goto(PhaseAfter("static"))
                      /\ UNCHANGED result
                 ELSE /\ Fail(r.error)
                      /\ UNCHANGED << all_vulnerabilities, idx >>
    /\ UNCHANGED << LoopFrame, tools_used, total_functions,
                    total_lines, all_probes >>

RunDynamicAnalysis ==
    /\ call = "analyze" /\ pc = "dynamic"
    /\ Enter("dynamic")
    /\ \E eo \in EchidnaOutcomes \cup {NeverReturns} :
          IF DynamicHangs(target, eo) THEN Pending
          ELSE
          LET r == run_dynamic_analysis(target, eo, idx)
          IN  /\ invoked' = invoked \o DynamicInvocations(target, eo, idx)
              /\ all_vulnerabilities' = all_vulnerabilities \o r.value
              /\ Goto(PhaseAfter("dynamic"))
              /\ UNCHANGED result
    /\ UNCHANGED << LoopFrame, tools_used, total_functions,
                    total_lines, all_probes >>

\* mutant: a failed AI call is skipped and the loop goes on
M_RunAIAnalysis ==
    /\ call = "analyze" /\ pc = "ai"
    /\ Enter("ai")
    /\ \E ao \in AIOutcomes :
          LET r == AIAssistant_analyze_contract(ai_backend, ao, idx)
          IN  /\ invoked' = Append(invoked, AIInvocation(idx, ai_backend, ao))
              /\ IF r.ok
                 THEN /\ all_vulnerabilities' = all_vulnerabilities \o r.value
                      /\ tools_used' = Append(tools_used, "AI Assistant")
                      /\ Goto(PhaseAfter("ai"))
                      /\ UNCHANGED result
                 ELSE /\ Goto(PhaseAfter("ai"))
                      /\ UNCHANGED << all_vulnerabilities, tools_used, result >>
    /\ UNCHANGED << LoopFrame, total_functions, total_lines,
                    all_probes >>

RunAIAnalysis ==
    /\ call = "analyze" /\ pc = "ai"
    /\ Enter("ai")
    /\ \E ao \in AIOutcomes :
          LET r == AIAssistant_analyze_contract(ai_backend, ao, idx)
          IN  /\ invoked' = Append(invoked, AIInvocation(idx, ai_backend, ao))
              /\ IF r.ok
                 THEN /\ all_vulnerabilities' = all_vulnerabilities \o r.value
                      /\ tools_used' = Append(tools_used, "AI Assistant")
                      /\ Goto(PhaseAfter("ai"))
                      /\ UNCHANGED result
                 ELSE /\ Fail(r.error)
                      /\ UNCHANGED << all_vulnerabilities, tools_used, idx >>
    /\ UNCHANGED << LoopFrame, total_functions, total_lines,
                    all_probes >>

\* analyzer.rs analyze_contracts: metrics, summary, Ok(AnalysisResults)
Finish ==
    /\ call = "analyze" /\ pc = "finish"
    /\ result' = AnalysisResults(all_vulnerabilities, tools_used,
                                  total_functions, total_lines)
    /\ pc' = "done"
    /\ UNCHANGED << LoopFrame, idx, all_vulnerabilities, tools_used,
                    total_functions, total_lines, all_probes, phases, invoked >>

(***************************************************************************)
(* generate_creative_probes (core/analyzer.rs)                             *)
(***************************************************************************)
ProbesFetch ==
    /\ call = "probes" /\ pc = "fetch"
    /\ FetchStep("probe")
    /\ UNCHANGED << Inputs, SideVars, all_vulnerabilities, tools_used,
                    total_functions, total_lines, all_probes, phases, invoked >>

\* one iteration of the loop: parse_contract, then the AI collaborator
ProbesUnit ==
    /\ call = "probes" /\ pc = "probe"
    /\ \E po \in ProbeOutcomes :
          LET r == AIAssistant_generate_creative_probes(llm_backend, po)
          IN  /\ invoked' = invoked
                    \o << Invocation(idx, "Parser", FALSE, 0),
                          Invocation(idx, "AI Probes", ~r.ok, IF r.ok THEN Len(r.value) ELSE 0) >>
              /\ IF r.ok
                 THEN /\ all_probes' = all_probes \o r.value
                      /\ IF idx < Len(contracts)
                         THEN idx' = idx + 1 /\ pc' = "probe"
                         ELSE idx' = idx /\ pc' = "finish"
                      /\ UNCHANGED result
                 ELSE /\ Fail(r.error)
                      /\ UNCHANGED << all_probes, idx >>
    /\ UNCHANGED << LoopFrame, all_vulnerabilities, tools_used,
                    total_functions, total_lines, phases >>

ProbesFinish ==
    /\ call = "probes" /\ pc = "finish"
    /\ result' = [status |-> "ok", probes |-> all_probes]
    /\ pc' = "done"
    /\ UNCHANGED << LoopFrame, idx, all_vulnerabilities, tools_used,
                    total_functions, total_lines, all_probes, phases, invoked >>

(***************************************************************************)
(* Configuration (utils/config.rs)                                         *)
(***************************************************************************)
\* config.rs Default for Config, the settings merge and set_value touch
DefaultConfig ==
    [log_level |-> "info", backend |-> "local",
     slither_args |-> << "--json", "-" >>, default_depth |-> "standard"]

\* the settings a configuration file can carry; "verbose" and "gpt" are
\* values validate rejects
FileConfigs ==
    [log_level : {"info", "debug", "verbose"},
     backend : {"local", "openai", "gpt"},
     slither_args : { << >>, << "--json", "-" >>, << "--exclude-low" >> },
     default_depth : {"standard"}]

\* config.rs Config::merge
Config_merge(self, other) ==
    [self EXCEPT
       !.log_level = IF other.log_level # self.log_level /\ other.log_level # "info"
                     THEN other.log_level ELSE @,
       !.backend = IF other.backend # "local" THEN other.backend ELSE @,
       !.slither_args = IF other.slither_args # << >> THEN other.slither_args ELSE @]

\* config.rs Config::validate; default_timeout, min_confidence and
\* temperature keep their valid defaults, nothing modelled here changes them
Config_validate(self) ==
    IF self.backend \notin {"openai", "anthropic", "local"} THEN Err("InvalidAIBackend")
    ELSE IF self.log_level \notin {"trace", "debug", "info", "warn", "error"}
    THEN Err("InvalidLogLevel")
    ELSE Ok("valid")

\* the keys and values set_value is called with
ConfigKeys == {"general.log_level", "ai.backend", "analysis.default_depth", "no.such.key"}
ConfigValues == {"debug", "openai", "verbose"}

\* config.rs Config::set_value: the field is assigned, then self.validate()?;
\* config is *self when the call returns
Config_set_value(self, key, value) ==
    LET updated ==
            CASE key = "general.log_level" -> [self EXCEPT !.log_level = value]
              [] key = "ai.backend" -> [self EXCEPT !.backend = value]
              [] key = "analysis.default_depth" -> [self EXCEPT !.default_depth = value]
              [] OTHER -> self
    IN  IF key = "no.such.key"
        THEN [config |-> self, result |-> Err("UnknownKey")]
        ELSE IF ~Config_validate(updated).ok
        THEN [config |-> updated, result |-> Config_validate(updated)]
        ELSE [config |-> updated, result |-> Ok("set")]

(***************************************************************************)
(* Specification of the two entry points                                   *)
(***************************************************************************)
Idle ==
    /\ fetched = Err("NotFetched")
    /\ contracts = << >> /\ idx = 0
    /\ all_vulnerabilities = << >> /\ tools_used = << >>
    /\ total_functions = 0 /\ total_lines = 0
    /\ all_probes = << >> /\ phases = << >> /\ invoked = << >>
    /\ result = [status |-> "none"]

\* the variables of the two entry points, and their values while another
\* function is the one exercised
EngineVars ==
    << Inputs, pc, fetched, contracts, idx, all_vulnerabilities, tools_used,
       total_functions, total_lines, all_probes, phases, invoked, result >>

EngineIdle(c) ==
    /\ call = c /\ pc = c
    /\ target = "evm" /\ depth = "standard" /\ use_ai = FALSE
    /\ ai_backend = "local" /\ llm_backend = "local"
    /\ Idle

ScoreIdle == score_vulns = << >> /\ score = 100

SlitherUnavailable ==
    [available |-> FALSE,
     outcome |-> [kind |-> "spawn_err", stdout |-> [json |-> FALSE, detectors |-> << >>]]]

PluginIdle ==
    /\ plugin_source = << >>
    /\ plugin_slither = SlitherUnavailable
    /\ plugin_findings = Err("NotRun")

MappingIdle ==
    /\ native = [severity |-> "", confidence |-> ""]
    /\ mapped = Err("NotRun")

CommandIdle ==
    /\ cmd = "none" /\ cmd_pc = "none"
    /\ cmd_input = [path |-> "missing", readable |-> TRUE, units |-> << >>]
    /\ analysis_results = [status |-> "none"]
    /\ all_fuzz_results = << >>
    /\ creative_probes = << >>
    /\ reported = [status |-> "none"]

ParserIdle ==
    /\ parser_source = << >>
    /\ parsed = Err("NotRun")

ValidateIdle ==
    /\ validate_platform = "evm"
    /\ validate_source = << >>
    /\ validated = Err("NotRun")

ConfigIdle ==
    /\ config = DefaultConfig
    /\ config_other = config
    /\ config_pc = "none"
    /\ config_result = Err("NotRun")

FuzzIdle ==
    /\ fuzz_unit = [lines |-> 0]
    /\ fuzz_failures = << >>
    /\ fuzz_report = Err("NotRun")
    /\ fuzz_vulns = Err("NotRun")

Init ==
    /\ \/ /\ call = "analyze"
          /\ target \in Targets /\ depth \in Depths /\ use_ai \in BOOLEAN
          /\ ai_backend \in AIBackends /\ llm_backend = "local"
       \/ /\ call = "probes"
          /\ target = "evm" /\ depth = "standard" /\ use_ai = FALSE
          /\ ai_backend = "local" /\ llm_backend \in AIBackends
    /\ pc = "fetch"
    /\ Idle
    /\ FuzzIdle
    /\ ConfigIdle
    /\ ValidateIdle
    /\ ParserIdle
    /\ ScoreIdle
    /\ PluginIdle
    /\ MappingIdle
    /\ CommandIdle

Next ==
    \/ AnalyzeFetch
    \/ ParseUnit
    \/ RunStaticAnalysis
    \/ RunDynamicAnalysis
    \/ RunAIAnalysis
    \/ Finish
    \/ ProbesFetch
    \/ ProbesUnit
    \/ ProbesFinish

Spec == Init /\ [][Next]_vars

\* the async runtime keeps polling the one task: a step that can be taken
\* is taken
FairSpec == Spec /\ WF_vars(Next)

(***************************************************************************)
(* Specification of the scoring function on its own                        *)
(***************************************************************************)
InitScore ==
    /\ EngineIdle("score")
    /\ FuzzIdle
    /\ ConfigIdle
    /\ ValidateIdle
    /\ ParserIdle
    /\ PluginIdle
    /\ MappingIdle
    /\ CommandIdle
    /\ score_vulns = << >>
    /\ score = calculate_security_score(<< >>)

\* one more finding is added and the list is scored again
ScoreAppended ==
    /\ call = "score" /\ pc = "score"
    /\ Len(score_vulns) < MaxScoreLen
    /\ \E sev \in SeverityStrings :
          score_vulns' = Append(score_vulns, Vulnerability(sev, "Other", "Slither", 6, 1))
    /\ score' = calculate_security_score(score_vulns')
    /\ UNCHANGED << EngineVars, FuzzVars, ConfigVars, ValidateVars, ParserVars, PluginVars, MappingVars, CommandVars >>

NextScore == ScoreAppended

SpecScore == InitScore /\ [][NextScore]_vars

(***************************************************************************)
(* Specification of the merge: the aggregates of a merged finding list     *)
(***************************************************************************)
MaxMergeLen == 3

\* one more finding is merged into the list, and the score is computed as
\* analyze_contracts does at its end
MergeAppended ==
    /\ call = "score" /\ pc = "score"
    /\ Len(score_vulns) < MaxMergeLen
    /\ \E sev \in SeverityStrings :
          score_vulns' = score_vulns \o << Vulnerability(sev, "Other", "Slither", 6, 1) >>
    /\ score' = calculate_security_score(score_vulns')
    /\ UNCHANGED << EngineVars, FuzzVars, ConfigVars, ValidateVars, ParserVars, PluginVars, MappingVars, CommandVars >>

NextMerge == MergeAppended

SpecMerge == InitScore /\ [][NextMerge]_vars

(***************************************************************************)
(* Specification of the EVM plugin's analyze on its own                    *)
(***************************************************************************)
MaxTokens == 3

\* The substrings of a Solidity source the plugin's checks look for, and the
\* two statements of the reentrancy shape; a source text is the sequence of
\* those it contains, in textual order.
SourceTokens ==
    { "tx.origin", "selfdestruct(", ".call(", "require(", "for(",
      ".call{value:", "balances[msg.sender] -=" }

\* the functions of a source text: each "for(" of the text is the body of a
\* function of its own, the other statements together are one more function
FunctionBodies(source) ==
    LET IsLoop(t) == t = "for("
        IsOther(t) == t # "for("
        others == SelectSeq(source, IsOther)
        loops == SelectSeq(source, IsLoop)
    IN  (IF others = << >> THEN << >>
         ELSE << { others[i] : i \in 1..Len(others) } >>)
        \o [ i \in 1..Len(loops) |-> { loops[i] } ]

\* core/parser.rs parse_contract, as far as the plugin reads its result
ParsedContract(source) ==
    [tokens |-> { source[i] : i \in 1..Len(source) },
     functions |-> Len(FunctionBodies(source)),
     lines |-> Len(source),
     bodies |-> FunctionBodies(source)]

InitPlugin ==
    /\ EngineIdle("plugin")
    /\ FuzzIdle
    /\ ConfigIdle
    /\ ValidateIdle
    /\ ParserIdle
    /\ ScoreIdle
    /\ MappingIdle
    /\ CommandIdle
    /\ plugin_source \in SeqsUpTo(SourceTokens, MaxTokens)
    /\ plugin_slither \in
          {SlitherUnavailable}
          \cup { [available |-> TRUE, outcome |-> o] : o \in SlitherOutcomes }
    /\ plugin_findings = Err("NotRun")

PluginAnalyze ==
    /\ call = "plugin" /\ plugin_findings = Err("NotRun")
    /\ plugin_findings' =
          EVMPlugin_analyze_contract(ParsedContract(plugin_source), plugin_slither, 1)
    /\ UNCHANGED << EngineVars, FuzzVars, ConfigVars, ValidateVars, ParserVars, ScoreVars, MappingVars, CommandVars,
                    plugin_source, plugin_slither >>

NextPlugin == PluginAnalyze

SpecPlugin == InitPlugin /\ [][NextPlugin]_vars

(***************************************************************************)
(* Specification of the severity and confidence tables on their own        *)
(***************************************************************************)
\* strings a backend may write in a severity or confidence field: the known
\* values in several casings, values of other scales, and junk
NativeStrings ==
    { "High", "HIGH", "high", "hIgH", "Medium", "MEDIUM", "medium",
      "Low", "LOW", "low", "Informational", "INFORMATIONAL", "informational",
      "Optimization", "Critical", "critical", "Info", "unknown", "" }

InitMapping ==
    /\ EngineIdle("mapping")
    /\ FuzzIdle
    /\ ConfigIdle
    /\ ValidateIdle
    /\ ParserIdle
    /\ ScoreIdle
    /\ PluginIdle
    /\ CommandIdle
    /\ native \in [severity : NativeStrings, confidence : NativeStrings]
    /\ mapped = Err("NotRun")

MapNative ==
    /\ call = "mapping" /\ mapped = Err("NotRun")
    /\ mapped' = Ok([ slither_severity |-> map_slither_severity(native.severity),
                      mythril_severity |-> map_mythril_severity(native.severity),
                      confidence |-> map_confidence(native.confidence) ])
    /\ UNCHANGED << EngineVars, FuzzVars, ConfigVars, ValidateVars, ParserVars, ScoreVars, PluginVars, CommandVars, native >>

NextMapping == MapNative

SpecMapping == InitMapping /\ [][NextMapping]_vars

(***************************************************************************)
(* Fuzzing engine (core/fuzz_engine.rs)                                    *)
(***************************************************************************)
\* What one echidna-test run of the fuzzing engine does: the temporary
\* directory or files cannot be written, the binary cannot be started, it
\* exits with an error, or it exits with success and `failures` failed
\* properties in its output.
FuzzOutcomes ==
    { [kind |-> k, failures |-> 0] : k \in {"tempdir_err", "spawn_err", "exit_nonzero"} }
    \cup { [kind |-> "exit_ok", failures |-> n] : n \in 0..1 }

\* fuzz_engine.rs parse_echidna_output: one FuzzingFailure per failed
\* property of the output, each of type "Property violation"
FuzzEngine_parse_echidna_output(failed) ==
    [ i \in 1..failed |-> [failure_type |-> "Property violation"] ]

\* fuzz_engine.rs run_echidna_fuzzing: the FuzzingFailure records
run_echidna_fuzzing(outcome) ==
    CASE outcome.kind = "tempdir_err" -> Err("io")
      [] outcome.kind \in {"spawn_err", "exit_nonzero"} -> Ok(<< >>)
      [] OTHER -> Ok(FuzzEngine_parse_echidna_output(outcome.failures))

\* mutant: the covered lines rounded up
M_generate_coverage_report(contract) ==
    [ total_lines |-> contract.lines,
      lines_covered |-> (3 * contract.lines + 3) \div 4 ]

\* fuzz_engine.rs generate_coverage_report: lines_covered is
\* (total_lines as f64 * 0.75) as u32; the percentage is kept as the pair
\* of integers it is the quotient of
generate_coverage_report(contract) ==
    [ total_lines |-> contract.lines,
      lines_covered |-> (3 * contract.lines) \div 4 ]

\* fuzz_engine.rs fuzz_contract
fuzz_contract(contract, outcome) ==
    IF ~run_echidna_fuzzing(outcome).ok THEN Err("io")
    ELSE Ok([ failures |-> run_echidna_fuzzing(outcome).value,
              coverage_report |-> generate_coverage_report(contract) ])

\* coverage_percentage < 80.0, where coverage_percentage is
\* lines_covered / total_lines * 100.0: NaN, hence false, for zero lines
CoverageBelow80(report) ==
    /\ report.total_lines > 0
    /\ 100 * report.lines_covered < 80 * report.total_lines

\* fuzz_engine.rs convert_to_vulnerabilities: the match on failure_type
FailureSeverity(failure_type) ==
    CASE failure_type = "Property violation" -> "High"
      [] failure_type = "Assertion failure" -> "Medium"
      [] failure_type = "Revert" -> "Low"
      [] OTHER -> "Info"

\* fuzz_engine.rs convert_to_vulnerabilities: one finding per failure, in
\* the order of the failures, then the coverage finding
convert_to_vulnerabilities(results, unit) ==
    [ i \in 1..Len(results.failures) |->
        Vulnerability(FailureSeverity(results.failures[i].failure_type),
                      "Fuzzing", "FuzzEngine", 8, unit) ]
    \o (IF CoverageBelow80(results.coverage_report)
        THEN << Vulnerability("Info", "CodeQuality", "FuzzEngine", 10, unit) >>
        ELSE << >>)

RECURSIVE FuzzAll(_, _, _)
\* commands.rs execute_perfect_audit, step 2: the loop over the contracts,
\* left with `?` at the first fuzz_contract that fails
FuzzAll(units, outcomes, unit) ==
    IF units = << >> THEN Ok(<< >>)
    ELSE LET r == fuzz_contract(Head(units), Head(outcomes))
             rest == FuzzAll(Tail(units), Tail(outcomes), unit + 1)
         IN  IF ~r.ok THEN r
             ELSE IF ~rest.ok THEN rest
             ELSE Ok(convert_to_vulnerabilities(r.value, unit) \o rest.value)

RECURSIVE ProbesAll(_)
\* analyzer.rs generate_creative_probes: the loop over the contracts, left
\* with `?` at the first failing call of the AI collaborator
ProbesAll(outcomes) ==
    IF outcomes = << >> THEN Ok(<< >>)
    ELSE LET r == AIAssistant_generate_creative_probes("local", Head(outcomes))
             rest == ProbesAll(Tail(outcomes))
         IN  IF ~r.ok THEN r
             ELSE IF ~rest.ok THEN rest
             ELSE Ok(r.value \o rest.value)

(***************************************************************************)
(* Specification of the commands that use a result (cli/commands.rs)       *)
(***************************************************************************)
MaxFindings == 2

\* findings analyze_contracts can return: one of Slither, one of the AI
ReturnedFindings ==
    { Vulnerability("High", "AccessControl", "Slither", 9, 1),
      Vulnerability("critical", "DenialOfService", "AI Assistant", 15, 1) }

RECURSIVE SumOver(_, _)
SumOver(units, field) ==
    IF units = << >> THEN 0
    ELSE Head(units)[field] + SumOver(Tail(units), field)

\* the values analyze_contracts can return for the contracts `units`
AnalyzeOutcomes(units) ==
    { Err("AiBackendFailure"), Err("UnsupportedTarget") }
    \cup { Ok(AnalysisResults(l, [ i \in 1..Len(units) |-> "AI Assistant" ],
                              SumOver(units, "functions"), SumOver(units, "lines"))) :
              l \in SeqsUpTo(ReturnedFindings, MaxFindings) }

InitCommand ==
    /\ EngineIdle("command")
    /\ FuzzIdle
    /\ ConfigIdle
    /\ ValidateIdle
    /\ ParserIdle
    /\ ScoreIdle /\ PluginIdle /\ MappingIdle
    /\ cmd \in {"analyze", "perfect"}
    /\ cmd_pc = "analyze"
    /\ cmd_input \in FetchOutcomes
    /\ analysis_results = [status |-> "none"]
    /\ all_fuzz_results = << >>
    /\ creative_probes = << >>
    /\ reported = [status |-> "none"]

CommandFrame == << EngineVars, FuzzVars, ConfigVars, ValidateVars, ParserVars, ScoreVars, PluginVars, MappingVars, cmd, cmd_input >>

\* the command returns the error with `?`
CommandFails(r) ==
    /\ cmd_pc' = "failed"
    /\ UNCHANGED << analysis_results, all_fuzz_results, creative_probes, reported >>

\* execute_analyze_command / execute_perfect_audit, step 1:
\* analysis_engine.analyze_contracts(..).await?
CommandAnalyze ==
    /\ cmd_pc = "analyze"
    /\ LET f == fetch_from_local(cmd_input)
       IN  IF ~f.ok THEN CommandFails(f)
           ELSE IF f.value = << >> THEN CommandFails(Err("NoContractsFound"))
           ELSE \E r \in AnalyzeOutcomes(f.value) :
                   IF ~r.ok THEN CommandFails(r)
                   ELSE /\ analysis_results' = r.value
                        /\ cmd_pc' = IF cmd = "perfect" THEN "fuzz" ELSE "report"
                        /\ UNCHANGED << all_fuzz_results, creative_probes, reported >>
    /\ UNCHANGED CommandFrame

\* execute_perfect_audit, step 2: fetch again, fuzz every contract
CommandFuzz ==
    /\ cmd_pc = "fuzz"
    /\ LET units == fetch_from_local(cmd_input).value
       IN  \E outcomes \in [1..Len(units) -> FuzzOutcomes] :
              LET r == FuzzAll(units, outcomes, 1)
              IN  IF ~r.ok THEN CommandFails(r)
                  ELSE /\ all_fuzz_results' = r.value
                       /\ cmd_pc' = "probes"
                       /\ UNCHANGED << analysis_results, creative_probes, reported >>
    /\ UNCHANGED CommandFrame

\* execute_perfect_audit, steps 3 and 4: generate_creative_probes(..).await?
\* and generate_pocs(&analysis_results, ..).await?, which only reads
CommandProbes ==
    /\ cmd_pc = "probes"
    /\ LET units == fetch_from_local(cmd_input).value
       IN  \E outcomes \in [1..Len(units) -> ProbeOutcomes], fs_ok \in BOOLEAN :
              LET r == ProbesAll(outcomes)
              IN  IF ~r.ok \/ ~fs_ok THEN CommandFails(r)
                  ELSE /\ creative_probes' = r.value
                       /\ cmd_pc' = "report"
                       /\ UNCHANGED << analysis_results, all_fuzz_results, reported >>
    /\ UNCHANGED CommandFrame

\* execute_analyze_command: the results go to display / serde_json / the
\* report generator as they are.  execute_perfect_audit, step 5:
\* let mut combined_results = analysis_results;
\* combined_results.vulnerabilities.extend(all_fuzz_results);
\* and combined_results goes to the report generator and to serde_json.
CommandReport ==
    /\ cmd_pc = "report"
    /\ reported' =
          IF cmd = "perfect"
          THEN [analysis_results EXCEPT
                  !.vulnerabilities = analysis_results.vulnerabilities \o all_fuzz_results]
          ELSE analysis_results
    /\ cmd_pc' = "done"
    /\ UNCHANGED << CommandFrame, analysis_results, all_fuzz_results, creative_probes >>

NextCommand ==
    \/ CommandAnalyze
    \/ CommandFuzz
    \/ CommandProbes
    \/ CommandReport

SpecCommand == InitCommand /\ [][NextCommand]_vars

(***************************************************************************)
(* Claims                                                                  *)
(***************************************************************************)
RECURSIVE WeightSum(_)
\* the sum of the per-finding weights of the scoring table: Critical 25,
\* High 15, Medium 8, Low 3, anything else 1
WeightSum(vulnerabilities) ==
    IF vulnerabilities = << >> THEN 0
    ELSE LET sev == Head(vulnerabilities).severity
         IN  (IF sev = "Critical" THEN 25
              ELSE IF sev = "High" THEN 15
              ELSE IF sev = "Medium" THEN 8
              ELSE IF sev = "Low" THEN 3
              ELSE 1) + WeightSum(Tail(vulnerabilities))

\* C1: for every list of findings, calculate_security_score returns
\* max(0, 100 - sum of the per-finding weights); the empty list scores 100.
C1_ScoreIsClampedLinearPenalty ==
    /\ score = Max(0, 100 - WeightSum(score_vulns))
    /\ score_vulns = << >> => score = 100

\* a scored list that holds a non-canonical severity string and is clamped
C1_Witness ==
    /\ \E i \in 1..Len(score_vulns) : score_vulns[i].severity \notin Severities
    /\ \E i \in 1..Len(score_vulns) : score_vulns[i].severity = "Info"
    /\ WeightSum(score_vulns) > 100
    /\ score = 0

\* C2: appending a finding never raises the score, and the score of every
\* list lies in [0, 100].
C2_ScoreMonotoneAndBounded ==
    [][ /\ score_vulns' = Append(score_vulns, score_vulns'[Len(score_vulns')])
        /\ score' <= score
        /\ score \in 0..100
        /\ score' \in 0..100 ]_vars

\* a finding was appended to a non-empty list and the score went down
C2_Witness ==
    /\ Len(score_vulns) >= 2
    /\ score < calculate_security_score(SubSeq(score_vulns, 1, Len(score_vulns) - 1))

PhaseRank(phase) ==
    CASE phase = "ingest" -> 1
      [] phase = "static" -> 2
      [] phase = "dynamic" -> 3
      [] OTHER -> 4

PhasesOf(unit) == SelectSeq(phases, LAMBDA e : e.unit = unit)

\* C3: for each contract unit the phases are entered in the order Ingest,
\* Static, Dynamic, AI: a phase of a unit is entered only after every
\* earlier phase of that unit that runs at all, never before one, never
\* twice; and a phase is entered only when the previous action completed.
C3_PhasesInOrder ==
    /\ \A i, j \in 1..Len(phases) :
          (i < j /\ phases[i].unit = phases[j].unit)
              => PhaseRank(phases[i].phase) < PhaseRank(phases[j].phase)
    /\ \A i \in 1..Len(phases) : phases[i].phase # "ingest" =>
          /\ i > 1
          /\ phases[i - 1].unit = phases[i].unit

\* a unit went through all four phases
C3_Witness ==
    \E u \in 1..Len(contracts) :
        /\ Len(PhasesOf(u)) = 4
        /\ PhasesOf(u)[3].phase = "dynamic"
        /\ PhasesOf(u)[4].phase = "ai"

\* is every element of s an element of t
Within(s, t) == \A i \in 1..Len(s) : \E j \in 1..Len(t) : t[j] = s[i]

\* C4: in the static phase the matching platform plugin's analyze is invoked
\* for every contract unit, and its findings are part of the merged list.
C4_PluginAnalyzeInStaticPhase ==
    (call = "analyze" /\ pc = "done" /\ result.status = "ok") =>
        \A u \in 1..Len(contracts) :
            /\ \E i \in 1..Len(invoked) :
                  invoked[i].unit = u /\ invoked[i].what = "Plugin"
            /\ Within(PluginManager_analyze_contract(contracts[u], target, u).value,
                      result.vulnerabilities)

\* the targets run_static_analysis has an arm for
EngineTargets == {"evm", "move", "cairo"}

\* the findings of the merged list that `what` produced for `unit`
FindingsOf(unit, what) ==
    SelectSeq(all_vulnerabilities, LAMBDA v : v.tool = what /\ v.file_path = unit)

\* C5: with a target the engine supports, at least one unit and no AI, the
\* run ends in a non-error result whatever the external backends do; a
\* failing backend contributes no finding and every well-formed finding of a
\* backend that did not fail is in the result.
C5_BackendFailureIsRecoverable ==
    (call = "analyze" /\ pc = "done" /\ fetched.ok /\ fetched.value # << >>
       /\ target \in EngineTargets /\ ~use_ai) =>
        /\ result.status = "ok"
        /\ result.vulnerabilities = all_vulnerabilities
        /\ \A i \in 1..Len(invoked) :
              Len(FindingsOf(invoked[i].unit, invoked[i].what))
                  = IF invoked[i].failed THEN 0 ELSE invoked[i].produced

\* a run where one backend failed and another one's findings were kept
C5_Witness ==
    /\ call = "analyze" /\ pc = "done" /\ ~use_ai /\ target = "evm"
    /\ result.status = "ok"
    /\ \E i, j \in 1..Len(invoked) :
          /\ invoked[i].what = "Slither" /\ invoked[i].failed
          /\ invoked[j].what = "Mythril" /\ ~invoked[j].failed
          /\ invoked[j].produced > 0
          /\ invoked[i].unit = invoked[j].unit
    /\ Len(result.vulnerabilities) > 0

ExternalBackends == {"Slither", "Mythril", "Echidna", "AI Assistant"}

\* the backends that ran during the run: invoked and not failed
BackendsThatRan ==
    { invoked[i].what : i \in { k \in 1..Len(invoked) :
          invoked[k].what \in ExternalBackends /\ ~invoked[k].failed } }

\* C6: tools_used of the summary holds exactly the distinct names of the
\* backends that ran, each once.
C6_ToolsUsedAreTheBackendsThatRan ==
    (call = "analyze" /\ pc = "done" /\ result.status = "ok") =>
        LET tools == result.analysis_summary.tools_used
        IN  /\ \A i, j \in 1..Len(tools) : tools[i] = tools[j] => i = j
            /\ { tools[i] : i \in 1..Len(tools) } = BackendsThatRan

\* C7: when AI analysis is requested and the AI backend hard-fails for a
\* contract, analyze_contracts returns an error.
C7_AIHardFailureIsSurfaced ==
    (call = "analyze" /\ pc = "done"
       /\ \E i \in 1..Len(invoked) :
             invoked[i].what = "AI Assistant" /\ invoked[i].failed)
        => result.status = "err"

\* no backend was invoked: the log holds only the parser
OnlyParserInvoked == \A i \in 1..Len(invoked) : invoked[i].what = "Parser"

\* C8 (as stated): an unregistered platform identifier makes analyze_contracts
\* fail with the platform-not-supported error, no backend being invoked.
C8_UnknownPlatformAlwaysPlatformError ==
    (call = "analyze" /\ pc = "done" /\ target \notin RegisteredPlugins) =>
        /\ result = [status |-> "err", error |-> "UnsupportedTarget"]
        /\ OnlyParserInvoked

\* C8 (amended): when the input path yields at least one contract unit, an
\* unregistered platform identifier makes analyze_contracts fail with the
\* platform-not-supported error in the static phase of the first unit, no
\* external static, dynamic or AI backend being invoked; when the path is
\* missing, unreadable or yields no unit, that error is returned instead.
C8_UnknownPlatformFatal ==
    (call = "analyze" /\ pc = "done" /\ target \notin RegisteredPlugins) =>
        /\ result.status = "err"
        /\ OnlyParserInvoked
        /\ \A i \in 1..Len(invoked) : invoked[i].unit = 1
        /\ (fetched.ok /\ fetched.value # << >>)
              => result.error = "UnsupportedTarget"
        /\ (fetched.ok /\ fetched.value = << >>)
              => result.error = "NoContractsFound"
        /\ ~fetched.ok => result.error = fetched.error

\* a deep run with AI on several units stopped by the unknown platform
C8_Witness ==
    /\ call = "analyze" /\ pc = "done" /\ target = "unknown-chain"
    /\ depth = "deep" /\ use_ai /\ Len(contracts) >= 2
    /\ result = [status |-> "err", error |-> "UnsupportedTarget"]
    /\ Len(invoked) = 1

\* C9: for each advertised (and registered) target, a run on at least one
\* unit without AI does not end in the unsupported-platform error.
C9_AdvertisedTargetsAreSupported ==
    (call = "analyze" /\ pc = "done" /\ fetched.ok /\ fetched.value # << >>
       /\ target \in AdvertisedTargets \cap RegisteredPlugins /\ ~use_ai) =>
        ~(result.status = "err" /\ result.error = "UnsupportedTarget")

\* C10: when the source provider yields zero contract units, both entry
\* points fail with the no-contracts-found error before anything is parsed
\* and before any backend is invoked.
C10_NoContractsFound ==
    (call \in {"analyze", "probes"} /\ fetched.ok /\ fetched.value = << >>) =>
        /\ pc = "done"
        /\ result = [status |-> "err", error |-> "NoContractsFound"]
        /\ invoked = << >>
        /\ phases = << >>

\* generate_creative_probes on a directory without contracts
C10_Witness ==
    /\ call = "probes" /\ pc = "done"
    /\ fetched = Ok(<< >>)
    /\ result.status = "err"

\* C11: a contract unit whose source text is the empty string is not ingested:
\* analyze_contracts on an input consisting of an empty source ends with the
\* no-contracts-found error, nothing being parsed or analysed.
C11_EmptySourceIsNoContractsFound ==
    (call = "analyze" /\ pc = "done" /\ fetched.ok /\ Len(fetched.value) = 1
       /\ fetched.value[1].lines = 0) =>
        /\ result = [status |-> "err", error |-> "NoContractsFound"]
        /\ invoked = << >>

\* the classic reentrancy shape: an external value-transfer call and, later in
\* the text, the decrement of the caller's balance
ReentrancyShape(source) ==
    \E i, j \in 1..Len(source) :
        /\ i < j
        /\ source[i] = ".call{value:"
        /\ source[j] = "balances[msg.sender] -="

\* C12: for a contract of the reentrancy shape, the EVM plugin's analyze run
\* without external tools returns at least one finding of category
\* Reentrancy.
C12_ReentrancyShapeIsReported ==
    (call = "plugin" /\ plugin_findings.ok /\ ~plugin_slither.available
       /\ ReentrancyShape(plugin_source)) =>
        \E i \in 1..Len(plugin_findings.value) :
            plugin_findings.value[i].category = "Reentrancy"

\* C13: every finding of the merged list of a result has a severity that is
\* one of Critical, High, Medium, Low, Info, whichever backend produced it.
C13_SeveritiesAreCanonical ==
    (call = "analyze" /\ pc = "done" /\ result.status = "ok") =>
        \A i \in 1..Len(result.vulnerabilities) :
            result.vulnerabilities[i].severity \in Severities

\* the canonical counterpart of a native severity, whatever its casing; "" for
\* a value that is not a severity of the scale High, Medium, Low,
\* Informational
Counterpart(str) ==
    CASE str \in {"High", "HIGH", "high", "hIgH"} -> "High"
      [] str \in {"Medium", "MEDIUM", "medium"} -> "Medium"
      [] str \in {"Low", "LOW", "low"} -> "Low"
      [] str \in {"Informational", "INFORMATIONAL", "informational"} -> "Info"
      [] OTHER -> ""

\* C14: map_slither_severity and map_mythril_severity return one of the five
\* canonical severities for every input string; a known native value, in any
\* casing, maps to its counterpart (Slither: high, medium, low,
\* informational; Mythril: high, medium, low) and every other value to Medium.
C14_SeverityMappingIsTotal ==
    mapped.ok =>
        LET c == Counterpart(native.severity)
        IN  /\ mapped.value.slither_severity \in Severities
            /\ mapped.value.mythril_severity \in Severities
            /\ mapped.value.slither_severity = (IF c = "" THEN "Medium" ELSE c)
            /\ mapped.value.mythril_severity
                  = (IF c \in {"", "Info"} THEN "Medium" ELSE c)

\* an upper-case known value and an unknown value were both mapped
C14_Witness ==
    /\ mapped.ok
    /\ native.severity = "INFORMATIONAL"
    /\ mapped.value.slither_severity = "Info"
    /\ mapped.value.mythril_severity = "Medium"

\* C15: every finding of a result has a confidence in [0.0, 1.0] (0..10 in
\* tenths) taken from a table: for Slither 0.9, 0.7, 0.5, or 0.6 without a
\* recognised signal; no number of a backend's output is copied unchecked.
C15_ConfidencesAreMapped ==
    (call = "analyze" /\ pc = "done" /\ result.status = "ok") =>
        \A i \in 1..Len(result.vulnerabilities) :
            LET v == result.vulnerabilities[i]
            IN  /\ v.confidence \in 0..10
                /\ v.tool = "Slither" => v.confidence \in {9, 7, 5, 6}

\* the permutations of 1..n, for each length of a merged list
PermutationsOf ==
    [ n \in 0..MaxMergeLen |->
        { p \in [1..n -> 1..n] : \A i, j \in 1..n : p[i] = p[j] => i = j } ]

\* the finding list s taken in the order p
Permuted(s, p) == [ i \in 1..Len(s) |-> s[p[i]] ]

\* the aggregates of a result: the five counts, the total and the score
Aggregates(vulnerabilities) ==
    [ summary |-> generate_analysis_summary(vulnerabilities, << >>),
      security_score |-> calculate_security_score(vulnerabilities) ]

\* C16: the aggregates do not depend on the order in which the findings were
\* concatenated: every list holding the same findings in another order has
\* the same five counts, the same total and the same score.
C16_AggregatesAreOrderInsensitive ==
    /\ score = Aggregates(score_vulns).security_score
    /\ \A p \in PermutationsOf[Len(score_vulns)] :
          Aggregates(Permuted(score_vulns, p)) = Aggregates(score_vulns)

\* a merged list of findings of three different severities, one of them not
\* canonical
C16_Witness ==
    /\ Len(score_vulns) >= 3
    /\ score_vulns[1].severity = "Critical"
    /\ score_vulns[2].severity = "critical"
    /\ score_vulns[3].severity = "Info"

RECURSIVE ConcatFindings(_)
\* the finding lists of the invocations of a log, one after the other
ConcatFindings(log) ==
    IF log = << >> THEN << >>
    ELSE Head(log).findings \o ConcatFindings(Tail(log))

\* the phase a backend belongs to
BackendRank(what) ==
    CASE what = "Parser" -> 1
      [] what \in {"Slither", "Mythril", "Move Prover", "Cairo"} -> 2
      [] what = "Echidna" -> 3
      [] OTHER -> 4

\* C17: the merged finding list is the concatenation of the lists the backend
\* invocations returned, in the order the backends ran (for each unit static,
\* then dynamic, then AI), each list in the order its backend produced it:
\* nothing dropped, duplicated or reordered; the result carries that list.
C17_MergeIsConcatenationInRunOrder ==
    call = "analyze" =>
        /\ all_vulnerabilities = ConcatFindings(invoked)
        /\ \A i, j \in 1..Len(invoked) :
              (i < j /\ invoked[i].unit = invoked[j].unit)
                  => BackendRank(invoked[i].what) <= BackendRank(invoked[j].what)
        /\ (pc = "done" /\ result.status = "ok")
              => result.vulnerabilities = ConcatFindings(invoked)

\* a run in which three backends each contributed findings for one unit,
\* Slither more than one
C17_Witness ==
    /\ call = "analyze" /\ pc = "done" /\ result.status = "ok"
    /\ \E i, j, k \in 1..Len(invoked) :
          /\ invoked[i].what = "Slither" /\ Len(invoked[i].findings) >= 2
          /\ invoked[j].what = "Mythril" /\ Len(invoked[j].findings) >= 1
          /\ invoked[k].what = "AI Assistant" /\ Len(invoked[k].findings) >= 2
          /\ invoked[i].unit = invoked[j].unit /\ invoked[j].unit = invoked[k].unit

\* C18: the Analysis Result is not changed after analyze_contracts returned
\* it: what a command hands to the reporter or serializes is the returned
\* value, with its finding list, summary and metrics.
C18_ResultIsImmutable ==
    cmd_pc = "done" => reported = analysis_results

\* C19: every external backend invocation is bounded by a deadline, so a
\* Slither, Mythril or Echidna process that never exits does not stall the
\* run: analyze_contracts eventually returns.
C19_HungBackendDoesNotStallTheRun == <>(pc = "done")

\* the findings attributed to the fuzzing backend in a finding list
FuzzingFindings(vulnerabilities) ==
    { i \in 1..Len(vulnerabilities) : vulnerabilities[i].tool = "Echidna" }

\* C20: the dynamic phase runs only when the depth is exactly "deep"; with
\* "basic", "standard" or any other string the dynamic phase is never
\* entered, the fuzzing backend is never invoked and no finding of the
\* merged list or of the returned result is attributed to it.
C20_DynamicPhaseOnlyWhenDeep ==
    (call = "analyze" /\ depth # "deep") =>
        /\ pc # "dynamic"
        /\ \A i \in 1..Len(phases) : phases[i].phase # "dynamic"
        /\ \A i \in 1..Len(invoked) : invoked[i].what # "Echidna"
        /\ FuzzingFindings(all_vulnerabilities) = {}
        /\ result.status = "ok" => FuzzingFindings(result.vulnerabilities) = {}

\* a finished evm run with a depth that is "deep" but for its case, every
\* unit past its static phase, with findings in the result
C20_Witness ==
    /\ call = "analyze" /\ target = "evm" /\ depth = "Deep"
    /\ pc = "done" /\ result.status = "ok"
    /\ Len(result.vulnerabilities) > 0
    /\ \A u \in 1..Len(contracts) :
          \E i \in 1..Len(phases) : phases[i] = [unit |-> u, phase |-> "static"]

(***************************************************************************)
(* Contract parser (core/parser.rs) on its own                             *)
(***************************************************************************)
MaxLines == 3

\* The lines a source is made of.  A line is the sequence of its tokens:
\* "fn" is the text `function f()` of a header up to its brace, "mod" the
\* text `modifier m()`, "x" any other text without a brace.
ParserLines ==
    { << "fn", "{" >>,                          \* function f() {
      << "fn", "{", "}" >>,                     \* function f() { }
      << "fn", "{", "}", "fn", "{", "}" >>,     \* function f() { } function g() { }
      << "fn" >>,                               \* function f()      (brace on a later line)
      << "{" >>,
      << "}" >>,
      << "x" >>,
      << "}", "fn", "{" >>,                     \* } function f() {
      << "}", "}", "fn", "{" >>,                \* } } function f() {
      << "fn", "{", "{" >>,                     \* function f() { if (c) {
      << "mod", "{" >> }                        \* modifier m() {

\* Regex::captures(line) with function_pattern / modifier_pattern: the
\* keyword text and its opening brace have to be on the line
Captures(keyword, line) ==
    \E i \in 1..(Len(line) - 1) : line[i] = keyword /\ line[i + 1] = "{"

RECURSIVE CountChar(_, _)
\* the occurrences of a brace character on a line
CountChar(ch, line) ==
    IF line = << >> THEN 0
    ELSE (IF Head(line) = ch THEN 1 ELSE 0) + CountChar(ch, Tail(line))

RECURSIVE BodyScan(_, _, _, _, _)
\* parser.rs extract_function_body: the loop over lines.iter().enumerate()
\* .skip(start_line), with its locals brace_count, started and body; stop is
\* the last line the loop looked at
BodyScan(lines, i, brace_count, started, body) ==
    IF i > Len(lines)
    THEN [body |-> body, brace_count |-> brace_count, stop |-> Len(lines)]
    ELSE LET count == brace_count + CountChar("{", lines[i]) - CountChar("}", lines[i])
             st == started \/ CountChar("{", lines[i]) > 0
             b == IF st THEN Append(body, lines[i]) ELSE body
         IN  IF st /\ count = 0
             THEN [body |-> b, brace_count |-> count, stop |-> i]
             ELSE BodyScan(lines, i + 1, count, st, b)

\* parser.rs extract_function_body (start_line counted from 1 here)
extract_function_body(source_code, start_line) ==
    Ok(BodyScan(source_code, start_line, 0, FALSE, << >>).body)

\* parser.rs extract_modifier_body
extract_modifier_body(source_code, start_line) ==
    extract_function_body(source_code, start_line)

RECURSIVE ExtractFrom(_, _, _)
\* the loop of extract_functions / extract_modifiers: one record for each
\* line the pattern captures on
ExtractFrom(keyword, source_code, line_num) ==
    IF line_num > Len(source_code) THEN << >>
    ELSE (IF Captures(keyword, source_code[line_num])
          THEN << [line_number |-> line_num,
                   body |-> extract_function_body(source_code, line_num).value] >>
          ELSE << >>)
         \o ExtractFrom(keyword, source_code, line_num + 1)

\* parser.rs extract_functions
extract_functions(source_code) == Ok(ExtractFrom("fn", source_code, 1))

\* parser.rs extract_modifiers
extract_modifiers(source_code) == Ok(ExtractFrom("mod", source_code, 1))

InitParser ==
    /\ EngineIdle("parser")
    /\ FuzzIdle
    /\ ConfigIdle
    /\ ValidateIdle
    /\ ScoreIdle /\ PluginIdle /\ MappingIdle /\ CommandIdle
    /\ parser_source \in SeqsUpTo(ParserLines, MaxLines)
    /\ parsed = Err("NotRun")

\* parser.rs parse_contract: extract_functions, then extract_modifiers
ParseSource ==
    /\ call = "parser" /\ parsed = Err("NotRun")
    /\ parsed' = Ok([ functions |-> extract_functions(parser_source).value,
                      modifiers |-> extract_modifiers(parser_source).value ])
    /\ UNCHANGED << EngineVars, FuzzVars, ConfigVars, ValidateVars, ScoreVars, PluginVars, MappingVars, CommandVars,
                    parser_source >>

NextParser == ParseSource

SpecParser == InitParser /\ [][NextParser]_vars

RECURSIVE Flat(_, _)
\* the tokens of a source in source order, each with its line
Flat(source_code, line_num) ==
    IF line_num > Len(source_code) THEN << >>
    ELSE [ i \in 1..Len(source_code[line_num]) |->
             [tok |-> source_code[line_num][i], line |-> line_num] ]
         \o Flat(source_code, line_num + 1)

RECURSIVE ClosingToken(_, _, _)
\* the position of the brace that closes the brace opened just before
\* position k (depth = braces open at k), 0 when it is never closed
ClosingToken(flat, k, brace_depth) ==
    IF k > Len(flat) THEN 0
    ELSE IF flat[k].tok = "{" THEN ClosingToken(flat, k + 1, brace_depth + 1)
    ELSE IF flat[k].tok = "}"
         THEN (IF brace_depth = 1 THEN k ELSE ClosingToken(flat, k + 1, brace_depth - 1))
    ELSE ClosingToken(flat, k + 1, brace_depth)

\* the positions of the headers of a source: the keyword with its opening
\* brace as the next token, on the same line or on a later one
Headers(keyword, flat) ==
    { k \in 1..(Len(flat) - 1) : flat[k].tok = keyword /\ flat[k + 1].tok = "{" }

\* the well-formed declarations: headers whose body is closed
Declarations(keyword, flat) ==
    { k \in Headers(keyword, flat) : ClosingToken(flat, k + 2, 1) # 0 }

RECURSIVE LinesOf(_, _, _)
\* the lines of the positions of a set, in source order
LinesOf(flat, positions, k) ==
    IF k > Len(flat) THEN << >>
    ELSE (IF k \in positions THEN << flat[k].line >> ELSE << >>)
         \o LinesOf(flat, positions, k + 1)

\* C21: for a source with N function declarations, all of them well formed,
\* whatever their layout over lines, extract_functions returns N records in
\* source order, each with the line on which its header begins.
C21_EveryDeclarationIsExtracted ==
    LET flat == Flat(parser_source, 1)
    IN  (call = "parser" /\ parsed.ok
         /\ Headers("fn", flat) = Declarations("fn", flat)) =>
            [ i \in 1..Len(parsed.value.functions) |->
                parsed.value.functions[i].line_number ]
            = LinesOf(flat, Declarations("fn", flat), 1)

RECURSIVE BracesMatch(_, _, _)
\* every "{" has a matching "}" and every "}" closes an open "{"
BracesMatch(flat, k, brace_depth) ==
    IF k > Len(flat) THEN brace_depth = 0
    ELSE IF flat[k].tok = "{" THEN BracesMatch(flat, k + 1, brace_depth + 1)
    ELSE IF flat[k].tok = "}"
         THEN brace_depth > 0 /\ BracesMatch(flat, k + 1, brace_depth - 1)
    ELSE BracesMatch(flat, k + 1, brace_depth)

\* the header a record was extracted for: the first capture of its line
HeaderOf(keyword, flat, line_num) ==
    CHOOSE k \in 1..(Len(flat) - 1) :
        /\ flat[k].line = line_num /\ flat[k + 1].line = line_num
        /\ flat[k].tok = keyword /\ flat[k + 1].tok = "{"
        /\ \A j \in 1..(k - 1) :
              ~(flat[j].line = line_num /\ flat[j + 1].line = line_num
                /\ flat[j].tok = keyword /\ flat[j + 1].tok = "{")

\* the line of the brace that closes the body of the header at position k,
\* 0 when the body is never closed
ClosingLine(flat, k) ==
    LET c == ClosingToken(flat, k + 2, 1)
    IN  IF c = 0 THEN 0 ELSE flat[c].line

\* the records extracted from the source, each with the keyword of its header
Extracted ==
    { [keyword |-> "fn", record |-> parsed.value.functions[i]] :
          i \in 1..Len(parsed.value.functions) }
    \cup { [keyword |-> "mod", record |-> parsed.value.modifiers[i]] :
          i \in 1..Len(parsed.value.modifiers) }

\* C22: in a source where every "{" has a matching "}", body extraction
\* started at a function or modifier header line ends with the brace depth
\* back at zero, on the line that closes the construct, and extracting again
\* gives the same body.
C22_BodyExtractionEndsAtClosingLine ==
    LET flat == Flat(parser_source, 1)
    IN  (call = "parser" /\ parsed.ok /\ BracesMatch(flat, 1, 0)) =>
            \A e \in Extracted :
                LET start == e.record.line_number
                    scan == BodyScan(parser_source, start, 0, FALSE, << >>)
                IN  /\ scan.brace_count = 0
                    /\ scan.stop = ClosingLine(flat, HeaderOf(e.keyword, flat, start))
                    /\ extract_function_body(parser_source, start).value = e.record.body

\* C25: when the braces after a function or modifier header are never
\* closed, the body returned is every line from the header line to the end
\* of the source, and no error is reported.
C25_UnclosedBodyRunsToEndOfFile ==
    LET flat == Flat(parser_source, 1)
    IN  (call = "parser" /\ parsed # Err("NotRun")) =>
            /\ parsed.ok
            /\ \A e \in Extracted :
                  LET start == e.record.line_number
                  IN  ClosingLine(flat, HeaderOf(e.keyword, flat, start)) = 0 =>
                          e.record.body = SubSeq(parser_source, start, Len(parser_source))

(***************************************************************************)
(* validate_contract of the built-in plugins, through the plugin manager   *)
(***************************************************************************)
MaxValidateTokens == 2

\* The pieces of text the validations look for; a source_code is the
\* sequence of those it is made of, the empty sequence being the empty
\* string.  "function f() {" is a line the parser extracts a function from,
\* "uint256 x;" one it extracts a state variable from.
ValidateTokens ==
    { "pragma solidity", "contract", "function f() {", "uint256 x;",
      "module", "script", "fun", "struct",
      "%lang starknet", "from starkware.cairo.common",
      "#[ink::contract]", "use ink" }

\* needle occurs inside the piece of text
SubstringOf(needle, text) ==
    \/ needle = text
    \/ << needle, text >> \in { << "fun", "function f() {" >>,
                                << "contract", "#[ink::contract]" >> }

\* str::contains
Contains(source_code, needle) ==
    \E i \in 1..Len(source_code) : SubstringOf(needle, source_code[i])

\* mutant: the empty source rejected with an error instead of Ok(false)
M_EVMPlugin_validate_contract(source_code) ==
    IF source_code = << >> THEN Err("EmptySource")
    ELSE IF ~Contains(source_code, "pragma solidity") /\ ~Contains(source_code, "contract")
    THEN Ok(FALSE)
    ELSE IF ~Contains(source_code, "function f() {") /\ ~Contains(source_code, "uint256 x;")
    THEN Ok(FALSE)
    ELSE Ok(TRUE)

\* evm.rs EVMPlugin::validate_contract; contract.functions and
\* contract.state_variables are empty when no line of the source is one the
\* parser extracts a function or a state variable from
EVMPlugin_validate_contract(source_code) ==
    IF source_code = << >> THEN Ok(FALSE)
    ELSE IF ~Contains(source_code, "pragma solidity") /\ ~Contains(source_code, "contract")
    THEN Ok(FALSE)
    ELSE IF ~Contains(source_code, "function f() {") /\ ~Contains(source_code, "uint256 x;")
    THEN Ok(FALSE)
    ELSE Ok(TRUE)

\* move_lang.rs MovePlugin::validate_contract
MovePlugin_validate_contract(source_code) ==
    IF source_code = << >> THEN Ok(FALSE)
    ELSE IF ~Contains(source_code, "module") /\ ~Contains(source_code, "script")
    THEN Ok(FALSE)
    ELSE IF ~Contains(source_code, "fun") /\ ~Contains(source_code, "struct")
    THEN Ok(FALSE)
    ELSE Ok(TRUE)

\* cairo.rs CairoPlugin::validate_contract
CairoPlugin_validate_contract(source_code) ==
    IF source_code = << >> THEN Ok(FALSE)
    ELSE IF ~Contains(source_code, "%lang starknet")
            /\ ~Contains(source_code, "from starkware.cairo.common")
    THEN Ok(FALSE)
    ELSE Ok(TRUE)

\* ink.rs InkPlugin::validate_contract
InkPlugin_validate_contract(source_code) ==
    IF source_code = << >> THEN Ok(FALSE)
    ELSE IF ~Contains(source_code, "#[ink::contract]") /\ ~Contains(source_code, "use ink")
    THEN Ok(FALSE)
    ELSE Ok(TRUE)

\* plugins/mod.rs PluginManager::validate_contract
PluginManager_validate_contract(source_code, target_platform) ==
    CASE target_platform = "evm" -> EVMPlugin_validate_contract(source_code)
      [] target_platform = "move" -> MovePlugin_validate_contract(source_code)
      [] target_platform = "cairo" -> CairoPlugin_validate_contract(source_code)
      [] target_platform = "ink" -> InkPlugin_validate_contract(source_code)
      [] OTHER -> Err("PluginNotFound")

InitValidate ==
    /\ EngineIdle("validate")
    /\ FuzzIdle
    /\ ConfigIdle
    /\ ScoreIdle /\ PluginIdle /\ MappingIdle /\ CommandIdle /\ ParserIdle
    /\ validate_platform \in RegisteredPlugins \cup {"solana"}
    /\ validate_source \in SeqsUpTo(ValidateTokens, MaxValidateTokens)
    /\ validated = Err("NotRun")

ValidateContract ==
    /\ call = "validate" /\ validated = Err("NotRun")
    /\ validated' = PluginManager_validate_contract(validate_source, validate_platform)
    /\ UNCHANGED << EngineVars, FuzzVars, ConfigVars, ParserVars, ScoreVars, PluginVars, MappingVars,
                    CommandVars, validate_platform, validate_source >>

NextValidate == ValidateContract

SpecValidate == InitValidate /\ [][NextValidate]_vars

\* C23: each of the four built-in plugins answers false, neither an error
\* nor true, when asked to validate a contract whose source is empty.
C23_EmptySourceIsInvalid ==
    (call = "validate" /\ validated # Err("NotRun")
       /\ validate_platform \in RegisteredPlugins /\ validate_source = << >>) =>
        validated = Ok(FALSE)

\* the ink plugin has answered for the empty source
C23_Witness ==
    /\ call = "validate" /\ validate_platform = "ink" /\ validate_source = << >>
    /\ validated = Ok(FALSE)

\* evm.rs run_basic_checks: the number of checks of the EVM battery
EVMBatteryChecks == 4

\* the categories that tell the findings of the EVM battery's checks apart
EVMBatteryCategories ==
    {"AccessControl", "CodeQuality", "UnhandledExceptions", "DenialOfService"}

\* C24: in a plugin's heuristic battery every check that matches appends
\* exactly one finding per analyze call, so a call returns at most one
\* finding per check and never more findings than the battery has checks.
C24_OneFindingPerCheck ==
    (call = "plugin" /\ plugin_findings.ok /\ ~plugin_slither.available) =>
        /\ Len(plugin_findings.value) <= EVMBatteryChecks
        /\ \A c \in EVMBatteryCategories :
              Cardinality({ i \in 1..Len(plugin_findings.value) :
                              plugin_findings.value[i].category = c }) <= 1

(***************************************************************************)
(* Specification of the configuration: Config::load, then set_value        *)
(***************************************************************************)
InitConfig ==
    /\ EngineIdle("config")
    /\ FuzzIdle
    /\ ScoreIdle /\ PluginIdle /\ MappingIdle /\ CommandIdle /\ ParserIdle
    /\ ValidateIdle
    /\ config = DefaultConfig
    /\ config_other = DefaultConfig
    /\ config_pc = "default_file"
    /\ config_result = Err("NotRun")

ConfigFrame ==
    << EngineVars, FuzzVars, ParserVars, ValidateVars, ScoreVars, PluginVars, MappingVars,
       CommandVars >>

\* Config::load: config/default.toml, then the user's config.toml; a file
\* that is there and parses is merged into the configuration
ConfigMergeFile ==
    /\ call = "config" /\ config_pc \in {"default_file", "user_file"}
    /\ config_pc' = IF config_pc = "default_file" THEN "user_file" ELSE "env"
    /\ \/ /\ \E other \in FileConfigs :
                /\ config_other' = other
                /\ config' = Config_merge(config, other)
          /\ config_result' = Ok("merged")
       \/ /\ config_result' = Err("NoFile")
          /\ UNCHANGED << config, config_other >>
    /\ UNCHANGED ConfigFrame

\* Config::load: load_from_env, validate; main.rs falls back to
\* Config::default() when load returns an error
ConfigLoadEnv ==
    /\ call = "config" /\ config_pc = "env"
    /\ \E log_level \in {"unset", "debug", "verbose"}, backend \in {"unset", "openai"} :
          LET env == [config EXCEPT
                        !.log_level = IF log_level = "unset" THEN @ ELSE log_level,
                        !.backend = IF backend = "unset" THEN @ ELSE backend]
          IN  /\ config' = IF Config_validate(env).ok THEN env ELSE DefaultConfig
              /\ config_result' = Config_validate(env)
    /\ config_pc' = "loaded"
    /\ UNCHANGED << ConfigFrame, config_other >>

\* Config::set_value on the loaded configuration
ConfigSetValue ==
    /\ call = "config" /\ config_pc = "loaded"
    /\ \E key \in ConfigKeys, value \in ConfigValues :
          LET r == Config_set_value(config, key, value)
          IN  /\ config' = r.config
              /\ config_result' = r.result
    /\ UNCHANGED << ConfigFrame, config_other, config_pc >>

NextConfig ==
    \/ ConfigMergeFile
    \/ ConfigLoadEnv
    \/ ConfigSetValue

SpecConfig == InitConfig /\ [][NextConfig]_vars

\* C26: Config::merge gives the other configuration precedence: after a
\* merge the log level, the AI backend and the Slither arguments are the
\* other configuration's, also when they equal the built-in defaults.
C26_MergeGivesOtherPrecedence ==
    (call = "config" /\ config_result = Ok("merged")) =>
        /\ config.log_level = config_other.log_level
        /\ config.backend = config_other.backend
        /\ config.slither_args = config_other.slither_args

\* C29: Config::set_value leaves the configuration as it was whenever it
\* returns an error, for an unknown key and for a value that fails
\* validation.
C29_FailedSetValueChangesNothing ==
    [][(config_pc = "loaded" /\ ~config_result'.ok) => config' = config]_vars

\* the positions of a finding list whose severity is in a set
WithSeverity(vulnerabilities, severities) ==
    { i \in 1..Len(vulnerabilities) : vulnerabilities[i].severity \in severities }

\* C27: in every result analyze_contracts returns the five severity counts
\* add up to total_vulnerabilities, which is the length of the finding list,
\* a finding whose severity is not exactly Critical, High, Medium or Low
\* being counted under info_count.
C27_CountsAddUpToTotal ==
    (call = "analyze" /\ pc = "done" /\ result.status = "ok") =>
        LET summary == result.analysis_summary
            listed == result.vulnerabilities
        IN  /\ summary.critical_count + summary.high_count + summary.medium_count
                 + summary.low_count + summary.info_count
               = summary.total_vulnerabilities
            /\ summary.total_vulnerabilities = Len(listed)
            /\ summary.info_count
               = Len(listed)
                 - Cardinality(WithSeverity(listed, {"Critical", "High", "Medium", "Low"}))

\* a result with a finding whose severity is none of the five names, and one
\* that is Critical, High, Medium or Low
C27_Witness ==
    /\ call = "analyze" /\ pc = "done" /\ result.status = "ok"
    /\ WithSeverity(result.vulnerabilities,
                    {"Critical", "High", "Medium", "Low"}) # {}
    /\ \E i \in 1..Len(result.vulnerabilities) :
          result.vulnerabilities[i].severity
             \notin {"Critical", "High", "Medium", "Low", "Info"}

\* the errors AIAssistant::analyze_contract returns
AIErrors ==
    { "MissingCredential", "NetworkError", "InvalidResponse",
      "UnsupportedAIBackend" }

\* C28: when the AI call made for unit k of analyze_contracts fails, the
\* call returns that error and nothing else: no unit after k has been or
\* will be parsed or analysed, and none of the findings gathered so far is
\* in what is returned.
C28_AIFailureAbortsTheWholeRun ==
    [][ /\ (call = "analyze" /\ pc = "ai" /\ tools_used' = tools_used) =>
              /\ pc' = "done"
              /\ result'.status = "err" /\ result'.error \in AIErrors
              /\ DOMAIN result' = {"status", "error"}
              /\ \A i \in 1..Len(phases') : phases'[i].unit <= idx
              /\ \A i \in 1..Len(invoked') : invoked'[i].unit <= idx
        /\ (call = "analyze" /\ pc = "done") =>
              UNCHANGED << result, phases, invoked >> ]_vars

\* the AI call of the second unit failed after the first unit had given
\* findings
C28_Witness ==
    /\ call = "analyze" /\ pc = "done" /\ result.status = "err"
    /\ result.error \in AIErrors
    /\ phases # << >> /\ phases[Len(phases)] = [unit |-> 2, phase |-> "ai"]
    /\ \E i \in 1..Len(all_vulnerabilities) : all_vulnerabilities[i].file_path = 1

(***************************************************************************)
(* Specification of the coverage report and of the conversion of fuzzing   *)
(* results on their own (core/fuzz_engine.rs)                              *)
(***************************************************************************)
MaxFuzzLines == 8
MaxFailures == 2

\* the failure_type strings of the match of convert_to_vulnerabilities, and
\* one it has no arm for
FailureTypes == { "Property violation", "Assertion failure", "Revert", "Timeout" }

InitFuzz ==
    /\ EngineIdle("fuzz")
    /\ ConfigIdle
    /\ ValidateIdle
    /\ ParserIdle
    /\ ScoreIdle /\ PluginIdle /\ MappingIdle /\ CommandIdle
    /\ fuzz_unit \in [lines : 0..MaxFuzzLines]
    /\ fuzz_failures \in SeqsUpTo([failure_type : FailureTypes], MaxFailures)
    /\ fuzz_report = Err("NotRun")
    /\ fuzz_vulns = Err("NotRun")

FuzzFrame ==
    << EngineVars, ConfigVars, ValidateVars, ParserVars, ScoreVars, PluginVars,
       MappingVars, CommandVars, fuzz_unit, fuzz_failures >>

\* fuzz_contract: let coverage_report = self.generate_coverage_report(contract)?
GenerateCoverageReport ==
    /\ call = "fuzz" /\ fuzz_report = Err("NotRun")
    /\ fuzz_report' = Ok(generate_coverage_report(fuzz_unit))
    /\ UNCHANGED << FuzzFrame, fuzz_vulns >>

\* convert_to_vulnerabilities on the FuzzingResults of the contract
ConvertToVulnerabilities ==
    /\ call = "fuzz" /\ fuzz_report.ok /\ ~fuzz_vulns.ok
    /\ fuzz_vulns' = Ok(convert_to_vulnerabilities(
                           [ failures |-> fuzz_failures,
                             coverage_report |-> fuzz_report.value ], 1))
    /\ UNCHANGED << FuzzFrame, fuzz_report >>

NextFuzz == GenerateCoverageReport \/ ConvertToVulnerabilities

SpecFuzz == InitFuzz /\ [][NextFuzz]_vars

\* the severity convert_to_vulnerabilities is to give a failure
ExpectedSeverity ==
    [ t \in FailureTypes |->
        IF t = "Property violation" THEN "High"
        ELSE IF t = "Assertion failure" THEN "Medium"
        ELSE IF t = "Revert" THEN "Low" ELSE "Info" ]

\* C30: for a contract of at least one line the coverage report has
\* lines_covered = floor(0.75 * total_lines), hence a percentage of at most
\* 75, below 80; and convert_to_vulnerabilities returns one finding per
\* fuzzing failure, in the order of the failures, followed by exactly one
\* Info finding of the low test coverage.
C30_CoverageAlwaysBelowThreshold ==
    (call = "fuzz" /\ fuzz_unit.lines >= 1) =>
        /\ fuzz_report.ok =>
              LET report == fuzz_report.value
              IN  /\ report.total_lines = fuzz_unit.lines
                  /\ 4 * report.lines_covered <= 3 * report.total_lines
                  /\ 3 * report.total_lines < 4 * (report.lines_covered + 1)
                  /\ 100 * report.lines_covered <= 75 * report.total_lines
        /\ fuzz_vulns.ok =>
              LET found == fuzz_vulns.value
                  n == Len(fuzz_failures)
              IN  /\ Len(found) = n + 1
                  /\ \A i \in 1..n :
                        /\ found[i].category = "Fuzzing"
                        /\ found[i].severity
                              = ExpectedSeverity[fuzz_failures[i].failure_type]
                  /\ found[n + 1].severity = "Info"
                  /\ found[n + 1].category = "CodeQuality"

\* a contract of one line with two failures of different types, converted
C30_Witness ==
    /\ call = "fuzz" /\ fuzz_unit.lines = 1 /\ fuzz_vulns.ok
    /\ Len(fuzz_failures) = 2
    /\ fuzz_failures[1].failure_type # fuzz_failures[2].failure_type

====
